---- MODULE Spec2Model ----
(***************************************************************************)
(* A model of the query execution flows of edgedb-go:                      *)
(*   - Client.granularFlow and the functions it calls                      *)
(*     (src/edgedb/granular_flow.go),                                      *)
(*   - protocolConnection.execScriptFlow                                   *)
(*     (src/internal/client/scriptflow.go),                                *)
(*   - Conn.writeAndRead and Conn.QueryWithArgs (src/unnamed/part_000).    *)
(* A connection carries one call at a time.  The server and the transport  *)
(* are the environment: the server answers every request with one response *)
(* ending in ReadyForCommand, the transport may fail any write or read.    *)
(***************************************************************************)
EXTENDS Integers, Sequences, FiniteSets, TLC

(* ------------------------------ bounds -------------------------------- *)

\* The largest number of Data messages in one response.
MaxRows == 2

\* Connections of the process; procs (below) says which of them run.
Conns == {1, 2}

\* Query texts, with the cardinality each is issued with.
Cmds == {"a", "b"}
CardOf(cmd) == IF cmd = "a" THEN "One" ELSE "Many"

\* Output shapes (reflect.Type of the destination).
Shapes == {"T1", "T2", "T3"}

\* Payloads of Data messages.
Payloads == {"x", "y"}

\* Errors the server sends and errors the transport signals.
ServerErrs == {"QueryError"}
TransportErrs == {"reset", "timeout"}

(* ------------------------------ values -------------------------------- *)

Nil == [kind |-> "nil", err |-> ""]
Running == [kind |-> "running", err |-> ""]
\* ErrorZeroResults: the distinguished error of granular_flow.go:207.
ErrorZeroResults == [kind |-> "zeroResults", err |-> ""]
ServerError(e) == [kind |-> "server", err |-> e]
TransportError(e) == [kind |-> "transport", err |-> e]
BuildError == [kind |-> "build", err |-> ""]
\* panic(...) of granular_flow.go and part_000.
Panic(what) == [kind |-> "panic", err |-> what]
\* The error fallThrough returns for a message it does not expect.
UnexpectedMessage == [kind |-> "unexpectedMessage", err |-> ""]
errStateNotSupported == [kind |-> "stateNotSupported", err |-> ""]

NoIDs == [in |-> "", out |-> ""]
NoDescs == [in |-> "", out |-> ""]
NoCodecs == [cmd |-> "", expCard |-> "", tp |-> "", in |-> "", out |-> ""]
NoQuery == [cmd |-> "", fmt |-> "", expCard |-> "", state |-> FALSE]

\* query: the fields of a query the flows read.
Query(cmd, state) ==
    [cmd |-> cmd, fmt |-> "Binary", expCard |-> CardOf(cmd), state |-> state]

\* q.flat(): one result is written into the destination itself.
flat(q) == q.expCard = "One"

(* ----------------------------- messages ------------------------------- *)

\* A message on the wire.  a, b are its fields (IDs, descriptors, payload,
\* error code); stale marks a message that belongs to an earlier request
\* than the one the connection is serving.
Msg(type, a, b) == [type |-> type, a |-> a, b |-> b, stale |-> FALSE]

ReadyForCommand == Msg("ReadyForCommand", "", "")
CommandComplete == Msg("CommandComplete", "", "")
Data(p) == Msg("Data", p, "")
ErrorResponse(e) == Msg("ErrorResponse", e, "")
PrepareComplete(ids) == Msg("PrepareComplete", ids.in, ids.out)
CommandDataDescription(d) == Msg("CommandDataDescription", d.in, d.out)
\* A message of a type no response loop names.
Unexpected == Msg("Unexpected", "", "")

\* Bytes of a message: type, length, and the fields of each message type.
PayloadLen(p) == IF p = "y" THEN 988 ELSE 4
MsgLen(m) ==
    CASE m.type = "PrepareComplete" -> 40
      [] m.type = "ReadyForCommand" -> 8
      [] m.type = "CommandComplete" -> 17
      [] m.type = "CommandDataDescription" -> 82
      [] m.type = "ErrorResponse" -> 24
      [] m.type = "Data" -> 11 + PayloadLen(m.a)
      [] OTHER -> 12

RECURSIVE BufLen(_)
BufLen(b) == IF b = <<>> THEN 0 ELSE MsgLen(Head(b)) + BufLen(Tail(b))

MarkStale(w) == [i \in 1..Len(w) |-> [w[i] EXCEPT !.stale = TRUE]]

(* ------------------------------ server -------------------------------- *)

\* The descriptor IDs the server assigns to a statement, and the
\* descriptors it sends for them.
TypeIDs(cmd) == [in |-> "u0", out |-> "u1"]
Descriptors(cmd) == [in |-> "d0", out |-> "d1"]

\* Sequences of at most n payloads.
RECURSIVE RowSeqs(_)
RowSeqs(n) ==
    IF n = 0 THEN {<<>>}
    ELSE LET shorter == RowSeqs(n - 1)
         IN  shorter \cup {Append(s, p) : s \in {t \in shorter : Len(t) = n - 1},
                                          p \in Payloads}

DataMsgs(rows) == [i \in 1..Len(rows) |-> Data(rows[i])]

\* What a protocol-conforming server may answer to a request, and the same
\* with a message of an unexpected type in front.
GoodResponses(req) ==
    CASE req.type = "Prepare" ->
           {<<PrepareComplete(TypeIDs(req.cmd)), ReadyForCommand>>}
           \cup {<<ErrorResponse(e), ReadyForCommand>> : e \in ServerErrs}
      [] req.type = "DescribeStatement" ->
           {<<CommandDataDescription(Descriptors(req.cmd)), ReadyForCommand>>}
           \cup {<<ErrorResponse(e), ReadyForCommand>> : e \in ServerErrs}
      [] req.type \in {"Execute", "OptimisticExecute"} ->
           {DataMsgs(rows) \o <<CommandComplete, ReadyForCommand>> :
                rows \in RowSeqs(MaxRows)}
           \cup {DataMsgs(rows) \o <<ErrorResponse(e), ReadyForCommand>> :
                rows \in RowSeqs(MaxRows), e \in ServerErrs}
      [] OTHER ->
           {<<CommandComplete, ReadyForCommand>>}
           \cup {<<ErrorResponse(e), ReadyForCommand>> : e \in ServerErrs}

Responses(req) ==
    GoodResponses(req)
    \cup {<<Unexpected>> \o r : r \in {g \in GoodResponses(req) : Len(g) = 2}}
    \cup {<<r[1], Unexpected, r[2]>> :
             r \in {g \in GoodResponses(req) :
                       Len(g) = 2 /\ g[1].type = "ErrorResponse"}}

(* ------------------------------- state -------------------------------- *)

VARIABLES
    codecCache,   \* (query, output shape) -> codecPair, process-wide
    descCache,    \* query -> descPair, process-wide
    descIDCache,  \* idPair -> descPair, process-wide
    builtKeys,    \* history: the codec keys some call has built and cached
    procs,        \* the connections that run in this behaviour
    cn,           \* per connection: the connection and the call it carries
    dec           \* the codec builder and the decoder at work (see below)

vars == <<codecCache, descCache, descIDCache, builtKeys, procs, cn, dec>>

caches == <<codecCache, descCache, descIDCache>>

\* The keys of the codec cache and of the descriptor cache.
CodecKey(q, tp) == [cmd |-> q.cmd, fmt |-> q.fmt, expCard |-> q.expCard, tp |-> tp]
DescKey(q) == [cmd |-> q.cmd, fmt |-> q.fmt, expCard |-> q.expCard]

\* The kinds of connection: "client" carries granularFlow, "script"
\* execScriptFlow, "conn" Conn.QueryWithArgs.  A process uses one of them.
Kinds == {"client", "script", "conn"}

\* A new connection of the given kind.
Fresh(kind) ==
    [ kind     |-> kind,
      broken   |-> FALSE,      \* the connection must not be used again
      wire     |-> <<>>,       \* messages sent by the server, not yet read
      prepared |-> "",         \* server side: the statement last prepared
      pc       |-> "done",     \* position of the call
      q        |-> NoQuery,
      tp       |-> "",
      out      |-> <<>>,       \* the caller's destination
      outFor   |-> [tp |-> "", flat |-> FALSE],
      buf      |-> <<>>,       \* local: buf / rcv
      n        |-> 0,          \* local: n of Conn.writeAndRead
      o        |-> <<>>,       \* local: o
      err      |-> Nil,        \* local: err
      ids      |-> NoIDs,      \* local: ids
      descs    |-> NoDescs,    \* local: descs / codecLookup
      cdcs     |-> NoCodecs,   \* local: cdcs
      isDone   |-> FALSE,      \* local: done of execScriptFlow
      ret      |-> Nil,        \* what the last call returned
      sent     |-> <<>>,       \* history: requests written by this call
      resp     |-> <<>>,       \* history: the last response the server sent
      hit      |-> FALSE,      \* history: the codec key was built before the call
      unrec    |-> FALSE,      \* history: a loop met an unexpected message type
      readStale |-> FALSE,     \* history: the call read an earlier response
      puts     |-> {},         \* history: the caches this call has put into
      ioErr    |-> "",         \* history: the error the transport signalled
      had      |-> 0,          \* history: length of the destination at entry
      afterErr |-> FALSE,      \* history: the call before this one got an
                               \* ErrorResponse first in answer to Execute
                               \* or OptimisticExecute on this connection
      afterBuild |-> FALSE,    \* history: the call before this one returned
                               \* the error of buildCodecs
      idHit    |-> "",         \* history: "hit" or "miss", what the lookup of
                               \* the call in the descriptor-ID cache found
      repeats  |-> "" ]        \* history: after a call that returned the
                               \* error of buildCodecs, "same" for a call
                               \* with its query and shape, "shape" for
                               \* one with its query and another shape

\* No decoder is at work.
NoDec == [pc |-> "none"]

Init ==
    /\ dec = NoDec
    /\ codecCache = [k \in {} |-> NoCodecs]
    /\ descCache = [k \in {} |-> NoDescs]
    /\ descIDCache = [k \in {} |-> NoDescs]
    /\ builtKeys = {}
    /\ procs = {1}
    /\ \E kind \in Kinds : cn = [c \in Conns |-> Fresh(kind)]

Set(c, s) == cn' = [cn EXCEPT ![c] = s]

\* The function returns r to the caller of the flow; the locals are gone.
\* A transport failure, a panic and an unexpected message leave the
\* connection unusable.
Return(s, r) ==
    [s EXCEPT !.pc = "done", !.ret = r, !.buf = <<>>, !.n = 0, !.o = <<>>,
              !.err = Nil, !.ids = NoIDs, !.descs = NoDescs,
              !.cdcs = NoCodecs, !.isDone = FALSE,
              !.broken = @ \/ r.kind \in {"transport", "panic",
                                          "unexpectedMessage"}]

\* A call starts: the caller hands in a destination, either the one of the
\* previous call (when it has the same type) or a new one.
Enter(s, q, tp, reuse, pc) ==
    LET for == [tp |-> tp, flat |-> flat(q)]
    IN  [s EXCEPT !.pc = pc, !.q = q, !.tp = tp, !.ret = Running,
                  !.out = IF reuse /\ s.outFor = for THEN @ ELSE <<>>,
                  !.outFor = for,
                  !.sent = <<>>, !.resp = <<>>, !.unrec = FALSE,
                  !.readStale = FALSE,
                  !.hit = CodecKey(q, tp) \in builtKeys,
                  !.puts = {}, !.ioErr = "",
                  !.had = IF reuse /\ s.outFor = for THEN Len(s.out) ELSE 0,
                  !.afterErr = /\ s.ret.kind = "server"
                               /\ s.resp[1].type = "ErrorResponse"
                               /\ s.sent[Len(s.sent)] \in
                                      {"Execute", "OptimisticExecute"},
                  !.afterBuild = s.ret = BuildError,
                  !.idHit = "",
                  !.repeats = IF s.ret # BuildError \/ s.q # q THEN ""
                              ELSE IF s.tp = tp THEN "same" ELSE "shape"]

\* The environment replaces connection c by a new connection of its kind;
\* the caller keeps its destination.
NewConnection(c) ==
    /\ c \in procs
    /\ cn[c].pc = "done"
    /\ Set(c, [Fresh(cn[c].kind) EXCEPT !.out = cn[c].out,
                                        !.outFor = cn[c].outFor])
    /\ UNCHANGED <<caches, builtKeys, procs, dec>>

(* ------------------------------ caches -------------------------------- *)

Put(cache, key, val) ==
    [k \in DOMAIN cache \cup {key} |-> IF k = key THEN val ELSE cache[k]]

putCodecs(cache, q, tp, cdcs) == Put(cache, CodecKey(q, tp), cdcs)
putDescriptors(cache, q, descs) == Put(cache, DescKey(q), descs)
putDescriptorsByID(cache, ids, descs) == Put(cache, ids, descs)

\* buildCodecs: the codec pair for descs and the output shape tp, or an
\* error when the shape does not fit the result descriptor.
Compatible(descs, tp) == <<descs.out, tp>> \in {<<"d1", "T1">>, <<"d1", "T2">>}
buildCodecs(q, tp, descs) ==
    [cmd |-> q.cmd, expCard |-> q.expCard, tp |-> tp,
     in |-> descs.in, out |-> descs.out]

\* cdcs.Out.Decode: the value the decoder of cdcs makes of a payload.
Decode(cdcs, payload) == [shape |-> cdcs.tp, desc |-> cdcs.out, val |-> payload]

\* decodeError: the error an ErrorResponse carries.
decodeError(m) == ServerError(m.a)

(* ----------------------------- transport ------------------------------ *)

Req(type, cmd) == [type |-> type, cmd |-> cmd]

\* The write of writeAndRead succeeded: the server has the request and has
\* put its response on the wire.
Written(s, req, r, pc) ==
    [s EXCEPT !.pc = pc,
              !.sent = Append(@, req.type),
              !.resp = r,
              !.wire = MarkStale(@) \o r,
              !.prepared = IF req.type = "Prepare" /\ r[1].type = "PrepareComplete"
                           THEN req.cmd ELSE @]

\* The transport signals the error e.
Failed(s, e) == [s EXCEPT !.ioErr = e]

\* The write failed.
WriteFailed(s, req, e) ==
    Return(Failed([s EXCEPT !.sent = Append(@, req.type)], e), TransportError(e))

\* The read of writeAndRead: the response is read through ReadyForCommand
\* into buf.
ReadAll(s, pc) ==
    [s EXCEPT !.pc = pc, !.buf = s.wire, !.wire = <<>>,
              !.readStale = @ \/ \E i \in 1..Len(s.wire) : s.wire[i].stale]

(* --------------------- granular_flow.go: granularFlow ------------------ *)

Usable(c, kind) ==
    /\ c \in procs
    /\ cn[c].kind = kind
    /\ cn[c].pc = "done"
    /\ ~cn[c].broken

At(c, pc) == c \in procs /\ cn[c].pc = pc

\* granularFlow is called (lines 30-39).
granularFlow(c, cmd, tp, reuse) ==
    /\ Usable(c, "client")
    /\ Set(c, Enter(cn[c], Query(cmd, FALSE), tp, reuse, "getCodecs"))
    /\ UNCHANGED <<caches, builtKeys, procs, dec>>

\* Mutant: the lookup never finds the entry.
GetCodecs_Miss(c) ==
    /\ At(c, "getCodecs")
    /\ Set(c, [cn[c] EXCEPT !.pc = "getDescriptors"])
    /\ UNCHANGED <<caches, builtKeys, procs, dec>>

\* Mutant: the lookup goes by the query alone and takes the entry of any
\* output shape.
GetCodecs_AnyShape(c) ==
    /\ At(c, "getCodecs")
    /\ LET s == cn[c]
           same == {k \in DOMAIN codecCache : DescKey(k) = DescKey(s.q)}
       IN  IF same # {}
           THEN Set(c, [s EXCEPT !.cdcs = codecCache[CHOOSE k \in same : TRUE],
                                 !.pc = "optimistic"])
           ELSE Set(c, [s EXCEPT !.pc = "getDescriptors"])
    /\ UNCHANGED <<caches, builtKeys, procs, dec>>

\* if cdcs, ok := getCodecs(q, tp); ok (lines 41-43).
GetCodecs(c) ==
    /\ At(c, "getCodecs")
    /\ LET s == cn[c]
           key == CodecKey(s.q, s.tp)
       IN  IF key \in DOMAIN codecCache
           THEN Set(c, [s EXCEPT !.cdcs = codecCache[key], !.pc = "optimistic"])
           ELSE Set(c, [s EXCEPT !.pc = "getDescriptors"])
    /\ UNCHANGED <<caches, builtKeys, procs, dec>>

\* if descs, ok := getDescriptors(q); ok (line 45).
GetDescriptors(c) ==
    /\ At(c, "getDescriptors")
    /\ LET s == cn[c]
           key == DescKey(s.q)
       IN  IF key \in DOMAIN descCache
           THEN Set(c, [s EXCEPT !.descs = descCache[key], !.pc = "buildCodecs"])
           ELSE Set(c, [s EXCEPT !.pc = "prepare"])
    /\ UNCHANGED <<caches, builtKeys, procs, dec>>

\* Mutant: the error of buildCodecs is dropped.
BuildCodecs_IgnoreError(c, next) ==
    LET s == cn[c]
    IN  Set(c, [s EXCEPT !.cdcs = buildCodecs(s.q, s.tp, s.descs), !.pc = next])

\* cdcs, err := buildCodecs(q, tp, descs) (lines 46-49).
BuildCodecs(c, next) ==
    LET s == cn[c]
    IN  IF Compatible(s.descs, s.tp)
        THEN Set(c, [s EXCEPT !.cdcs = buildCodecs(s.q, s.tp, s.descs),
                              !.pc = next])
        ELSE Set(c, Return(s, BuildError))

GranularBuildCodecs(c) ==
    /\ At(c, "buildCodecs")
    /\ BuildCodecs(c, "putCodecs")
    /\ UNCHANGED <<caches, builtKeys, procs, dec>>

\* putCodecs(q, tp, cdcs); return c.optimistic(...) (lines 51-52).
GranularPutCodecs(c) ==
    /\ At(c, "putCodecs")
    /\ codecCache' = putCodecs(codecCache, cn[c].q, cn[c].tp, cn[c].cdcs)
    /\ builtKeys' = builtKeys \cup {CodecKey(cn[c].q, cn[c].tp)}
    /\ Set(c, [cn[c] EXCEPT !.pc = "optimistic", !.puts = @ \cup {"codecs"}])
    /\ UNCHANGED <<descCache, descIDCache, procs, dec>>

(* ----------------------- granular_flow.go: prepare --------------------- *)

\* The request is built and written (lines 94-104); the write may fail
\* (lines 105-107).
WriteFrom(c, s, req, next) ==
    \/ \E r \in Responses(req) : Set(c, Written(s, req, r, next))
    \/ \E e \in TransportErrs : Set(c, WriteFailed(s, req, e))

WriteRequest(c, req, next) == WriteFrom(c, cn[c], req, next)

\* The response is read (line 104); the read may fail (lines 105-107).
ReadResponse(c, next) ==
    \/ Set(c, ReadAll(cn[c], next))
    \/ \E e \in TransportErrs : 
          Set(c, Return(Failed(cn[c], e), TransportError(e)))

PrepareWrite(c) ==
    /\ At(c, "prepare")
    /\ WriteRequest(c, Req("Prepare", cn[c].q.cmd), "prepare:read")
    /\ UNCHANGED <<caches, builtKeys, procs, dec>>

\* Mutant: the error of the read is dropped and prepare goes on.
PrepareRead_IgnoreError(c) ==
    /\ At(c, "prepare:read")
    /\ \/ Set(c, ReadAll(cn[c], "prepare:loop"))
       \/ \E e \in TransportErrs :
             Set(c, [Failed(cn[c], e) EXCEPT !.pc = "prepare:loop"])
    /\ UNCHANGED <<caches, builtKeys, procs, dec>>

PrepareRead(c) ==
    /\ At(c, "prepare:read")
    /\ ReadResponse(c, "prepare:loop")
    /\ UNCHANGED <<caches, builtKeys, procs, dec>>

\* One message of the loop of prepare (lines 110-130).
prepareCase(s, m) ==
    CASE m.type = "PrepareComplete" -> [s EXCEPT !.ids = [in |-> m.a, out |-> m.b]]
      [] m.type = "ReadyForCommand" -> s
      [] m.type = "ErrorResponse" -> Return(s, decodeError(m))
      [] OTHER -> Return([s EXCEPT !.unrec = TRUE],
                         Panic("unexpected message type"))

\* for len(buf) > 4 { ... }; return ids, nil (lines 109-133), and the
\* caller's if err != nil (lines 65-68).
RECURSIVE prepareLoop(_)
prepareLoop(s) ==
    IF s.pc = "done" THEN s
    ELSE IF BufLen(s.buf) > 4
         THEN prepareLoop(prepareCase([s EXCEPT !.buf = Tail(@)], Head(s.buf)))
         ELSE [s EXCEPT !.pc = "getDescriptorsByID", !.buf = <<>>]

PrepareLoop(c) ==
    /\ At(c, "prepare:loop")
    /\ Set(c, prepareLoop(cn[c]))
    /\ UNCHANGED <<caches, builtKeys, procs, dec>>

(* ---------------------- granular_flow.go: describe --------------------- *)

DescribeWrite(c) ==
    /\ At(c, "describe")
    /\ WriteRequest(c, Req("DescribeStatement", cn[c].prepared), "describe:read")
    /\ UNCHANGED <<caches, builtKeys, procs, dec>>

DescribeRead(c) ==
    /\ At(c, "describe:read")
    /\ ReadResponse(c, "describe:loop")
    /\ UNCHANGED <<caches, builtKeys, procs, dec>>

\* One message of the loop of describe (lines 154-175).
describeCase(s, m) ==
    CASE m.type = "CommandDataDescription" ->
             [s EXCEPT !.descs = [in |-> m.a, out |-> m.b]]
      [] m.type = "ReadyForCommand" -> s
      [] m.type = "ErrorResponse" -> Return(s, decodeError(m))
      [] OTHER -> Return([s EXCEPT !.unrec = TRUE],
                         Panic("unexpected message type"))

\* for len(buf) > 4 { ... }; return descs, nil (lines 153-178), and the
\* caller's if err != nil (lines 73-75).
RECURSIVE describeLoop(_)
describeLoop(s) ==
    IF s.pc = "done" THEN s
    ELSE IF BufLen(s.buf) > 4
         THEN describeLoop(describeCase([s EXCEPT !.buf = Tail(@)], Head(s.buf)))
         ELSE [s EXCEPT !.pc = "putDescriptorsByID", !.buf = <<>>]

DescribeLoop(c) ==
    /\ At(c, "describe:loop")
    /\ Set(c, describeLoop(cn[c]))
    /\ UNCHANGED <<caches, builtKeys, procs, dec>>

(* --------------------- granular_flow.go: pesimistic -------------------- *)

\* Mutant: describe is called whatever the lookup finds.
GetDescriptorsByID_AlwaysDescribe(c) ==
    /\ At(c, "getDescriptorsByID")
    /\ LET s == cn[c]
           found == IF s.ids \in DOMAIN descIDCache THEN "hit" ELSE "miss"
       IN  Set(c, [s EXCEPT !.pc = "describe", !.idHit = found])
    /\ UNCHANGED <<caches, builtKeys, procs, dec>>

\* descs, ok := getDescriptorsByID(ids); if !ok (lines 70-71).
GetDescriptorsByID(c) ==
    /\ At(c, "getDescriptorsByID")
    /\ LET s == cn[c]
       IN  IF s.ids \in DOMAIN descIDCache
           THEN Set(c, [s EXCEPT !.descs = descIDCache[s.ids],
                                 !.pc = "putDescriptors", !.idHit = "hit"])
           ELSE Set(c, [s EXCEPT !.pc = "describe", !.idHit = "miss"])
    /\ UNCHANGED <<caches, builtKeys, procs, dec>>

\* putDescriptorsByID(ids, descs) (line 76).
PutDescriptorsByID(c) ==
    /\ At(c, "putDescriptorsByID")
    /\ descIDCache' = putDescriptorsByID(descIDCache, cn[c].ids, cn[c].descs)
    /\ Set(c, [cn[c] EXCEPT !.pc = "putDescriptors",
                             !.puts = @ \cup {"descriptorsByID"}])
    /\ UNCHANGED <<codecCache, descCache, builtKeys, procs, dec>>

\* Mutant: the descriptors are not stored under the query.
PutDescriptors_Skip(c) ==
    /\ At(c, "putDescriptors")
    /\ Set(c, [cn[c] EXCEPT !.pc = "pesimistic:buildCodecs"])
    /\ UNCHANGED <<caches, builtKeys, procs, dec>>

\* putDescriptors(q, descs) (line 78).
PutDescriptors(c) ==
    /\ At(c, "putDescriptors")
    /\ descCache' = putDescriptors(descCache, cn[c].q, cn[c].descs)
    /\ Set(c, [cn[c] EXCEPT !.pc = "pesimistic:buildCodecs",
                             !.puts = @ \cup {"descriptors"}])
    /\ UNCHANGED <<codecCache, descIDCache, builtKeys, procs, dec>>

\* Mutant: the entry is installed in the codec cache before it is built.
PesimisticBuildCodecs_PutFirst(c) ==
    /\ At(c, "pesimistic:buildCodecs")
    /\ codecCache' = putCodecs(codecCache, cn[c].q, cn[c].tp, cn[c].cdcs)
    /\ BuildCodecs(c, "pesimistic:putCodecs")
    /\ UNCHANGED <<descCache, descIDCache, builtKeys, procs, dec>>

\* cdcs, err := buildCodecs(q, tp, descs) (lines 80-83).
PesimisticBuildCodecs(c) ==
    /\ At(c, "pesimistic:buildCodecs")
    /\ BuildCodecs(c, "pesimistic:putCodecs")
    /\ UNCHANGED <<caches, builtKeys, procs, dec>>

\* putCodecs(q, tp, cdcs); return c.execute(...) (lines 85-86).
PesimisticPutCodecs(c) ==
    /\ At(c, "pesimistic:putCodecs")
    /\ codecCache' = putCodecs(codecCache, cn[c].q, cn[c].tp, cn[c].cdcs)
    /\ builtKeys' = builtKeys \cup {CodecKey(cn[c].q, cn[c].tp)}
    /\ Set(c, [cn[c] EXCEPT !.pc = "execute", !.puts = @ \cup {"codecs"}])
    /\ UNCHANGED <<descCache, descIDCache, procs, dec>>

(* ---------------------- granular_flow.go: execute ---------------------- *)

ExecuteWrite(c) ==
    /\ At(c, "execute")
    /\ WriteRequest(c, Req("Execute", cn[c].prepared), "execute:read")
    /\ UNCHANGED <<caches, builtKeys, procs, dec>>

\* Mutant: err starts as nil.
executeBegin_NilErr(s) ==
    IF ~flat(s.q)
    THEN [s EXCEPT !.out = <<>>, !.o = <<>>, !.err = Nil]
    ELSE [s EXCEPT !.o = s.out, !.err = Nil]

\* o := out; if !q.flat() { out.SetLen(0) }; err = ErrorZeroResults
\* (lines 202-207).  o is the Value of the caller's slice, so it has the
\* length SetLen gives the slice.
executeBegin(s) ==
    IF ~flat(s.q)
    THEN [s EXCEPT !.out = <<>>, !.o = <<>>, !.err = ErrorZeroResults]
    ELSE [s EXCEPT !.o = s.out, !.err = ErrorZeroResults]

\* err := writeAndRead(...) returns (lines 197-200), then lines 202-207.
ExecuteRead(c) ==
    /\ At(c, "execute:read")
    /\ \/ Set(c, executeBegin(ReadAll(cn[c], "execute:loop")))
       \/ \E e \in TransportErrs : 
          Set(c, Return(Failed(cn[c], e), TransportError(e)))
    /\ UNCHANGED <<caches, builtKeys, procs, dec>>

\* Mutant: a row is put in front of the rows decoded before it.
executeCase_Prepend(s, m) ==
    CASE m.type = "Data" ->
             IF ~flat(s.q)
             THEN [s EXCEPT !.o = <<Decode(s.cdcs, m.a)>> \o @, !.err = Nil]
             ELSE [s EXCEPT !.out = <<Decode(s.cdcs, m.a)>>, !.err = Nil]
      [] m.type = "ErrorResponse" -> Return(s, decodeError(m))
      [] m.type \in {"CommandComplete", "ReadyForCommand"} -> s
      [] OTHER -> Return([s EXCEPT !.unrec = TRUE],
                         Panic("unexpected message type"))

\* One message of the loop of execute (lines 209-231).
executeCase(s, m) ==
    CASE m.type = "Data" ->
             IF ~flat(s.q)
             THEN [s EXCEPT !.o = Append(@, Decode(s.cdcs, m.a)), !.err = Nil]
             ELSE [s EXCEPT !.out = <<Decode(s.cdcs, m.a)>>, !.err = Nil]
      [] m.type = "CommandComplete" -> s
      [] m.type = "ReadyForCommand" -> s
      [] m.type = "ErrorResponse" -> Return(s, decodeError(m))
      [] OTHER -> Return([s EXCEPT !.unrec = TRUE],
                         Panic("unexpected message type"))

\* if !q.flat() { out.Set(o) }; return err (lines 234-238).
executeEnd(s) ==
    Return(IF ~flat(s.q) THEN [s EXCEPT !.out = s.o] ELSE s, s.err)

\* for len(buf) > 0 { ... } (lines 208-232) and lines 234-238.
RECURSIVE executeLoop(_)
executeLoop(s) ==
    IF s.pc = "done" THEN s
    ELSE IF BufLen(s.buf) > 0
         THEN executeLoop(executeCase([s EXCEPT !.buf = Tail(@)], Head(s.buf)))
         ELSE executeEnd(s)

ExecuteLoop(c) ==
    /\ At(c, "execute:loop")
    /\ Set(c, executeLoop(cn[c]))
    /\ UNCHANGED <<caches, builtKeys, procs, dec>>

(* --------------------- granular_flow.go: optimistic -------------------- *)

\* The request carries the command and the IDs of both codecs
\* (lines 249-269).
OptimisticWrite(c) ==
    /\ At(c, "optimistic")
    /\ WriteRequest(c, Req("OptimisticExecute", cn[c].q.cmd), "optimistic:read")
    /\ UNCHANGED <<caches, builtKeys, procs, dec>>

\* Mutant: the destination is not truncated.
optimisticBegin_NoSetLen(s) ==
    [s EXCEPT !.o = s.out, !.err = ErrorZeroResults]

\* o := out; if !q.flat() { out.SetLen(0) }; err = ErrorZeroResults
\* (lines 274-279).
optimisticBegin(s) ==
    IF ~flat(s.q)
    THEN [s EXCEPT !.out = <<>>, !.o = <<>>, !.err = ErrorZeroResults]
    ELSE [s EXCEPT !.o = s.out, !.err = ErrorZeroResults]

\* err := writeAndRead(...) returns (lines 269-272), then lines 274-279.
OptimisticRead(c) ==
    /\ At(c, "optimistic:read")
    /\ \/ Set(c, optimisticBegin(ReadAll(cn[c], "optimistic:loop")))
       \/ \E e \in TransportErrs : 
          Set(c, Return(Failed(cn[c], e), TransportError(e)))
    /\ UNCHANGED <<caches, builtKeys, procs, dec>>

\* Mutant: an ErrorResponse is passed over like CommandComplete.
optimisticCase_SkipError(s, m) ==
    CASE m.type = "Data" ->
             IF ~flat(s.q)
             THEN [s EXCEPT !.o = Append(@, Decode(s.cdcs, m.a)), !.err = Nil]
             ELSE [s EXCEPT !.out = <<Decode(s.cdcs, m.a)>>, !.err = Nil]
      [] m.type \in {"CommandComplete", "ReadyForCommand", "ErrorResponse"} -> s
      [] OTHER -> Return([s EXCEPT !.unrec = TRUE],
                         Panic("unexpected message type"))

\* Mutant: the rows decoded before an ErrorResponse are handed to the
\* caller.
optimisticCase_SetOnError(s, m) ==
    CASE m.type = "Data" ->
             IF ~flat(s.q)
             THEN [s EXCEPT !.o = Append(@, Decode(s.cdcs, m.a)), !.err = Nil]
             ELSE [s EXCEPT !.out = <<Decode(s.cdcs, m.a)>>, !.err = Nil]
      [] m.type = "CommandComplete" -> s
      [] m.type = "ReadyForCommand" -> s
      [] m.type = "ErrorResponse" ->
             Return(IF ~flat(s.q) THEN [s EXCEPT !.out = s.o] ELSE s,
                    decodeError(m))
      [] OTHER -> Return([s EXCEPT !.unrec = TRUE],
                         Panic("unexpected message type"))

\* One message of the loop of optimistic (lines 281-305).
optimisticCase(s, m) ==
    CASE m.type = "Data" ->
             IF ~flat(s.q)
             THEN [s EXCEPT !.o = Append(@, Decode(s.cdcs, m.a)), !.err = Nil]
             ELSE [s EXCEPT !.out = <<Decode(s.cdcs, m.a)>>, !.err = Nil]
      [] m.type = "CommandComplete" -> s
      [] m.type = "ReadyForCommand" -> s
      [] m.type = "ErrorResponse" -> Return(s, decodeError(m))
      [] OTHER -> Return([s EXCEPT !.unrec = TRUE],
                         Panic("unexpected message type"))

\* if !q.flat() { out.Set(o) }; return err (lines 308-312).
optimisticEnd(s) ==
    Return(IF ~flat(s.q) THEN [s EXCEPT !.out = s.o] ELSE s, s.err)

\* for len(buf) > 0 { ... } (lines 280-306) and lines 308-312.
RECURSIVE optimisticLoop(_)
optimisticLoop(s) ==
    IF s.pc = "done" THEN s
    ELSE IF BufLen(s.buf) > 0
         THEN optimisticLoop(optimisticCase([s EXCEPT !.buf = Tail(@)],
                                            Head(s.buf)))
         ELSE optimisticEnd(s)

OptimisticLoop(c) ==
    /\ At(c, "optimistic:loop")
    /\ Set(c, optimisticLoop(cn[c]))
    /\ UNCHANGED <<caches, builtKeys, procs, dec>>

(* -------------------- scriptflow.go: execScriptFlow -------------------- *)

\* wrapAll: the error that wraps both errors.
wrapAll(a, b) == IF a = Nil THEN b ELSE [kind |-> "server", err |-> "wrapped"]

\* fallThrough: the error for a message of a type it does not expect.
fallThrough(m) == UnexpectedMessage

\* execScriptFlow is called: the state check, the message and the write
\* (lines 66-82).
execScriptFlow(c, cmd, state) ==
    /\ Usable(c, "script")
    /\ LET s == Enter(cn[c], Query(cmd, state), "", FALSE, "script:loop")
       IN  IF s.q.state
           THEN Set(c, Return(s, errStateNotSupported))
           ELSE WriteFrom(c, s, Req("ExecuteScript", cmd), "script:loop")
    /\ UNCHANGED <<caches, builtKeys, procs, dec>>

\* Mutant: the error is returned as soon as it is decoded.
scriptCase_ReturnOnError(s, m) ==
    CASE m.type = "CommandComplete" -> s
      [] m.type = "ReadyForCommand" -> [s EXCEPT !.isDone = TRUE]
      [] m.type = "ErrorResponse" -> Return(s, decodeError(m))
      [] OTHER -> Return([s EXCEPT !.unrec = TRUE], fallThrough(m))

\* One message of the loop of execScriptFlow (lines 85-98).
scriptCase(s, m) ==
    CASE m.type = "CommandComplete" -> s
      [] m.type = "ReadyForCommand" -> [s EXCEPT !.isDone = TRUE]
      [] m.type = "ErrorResponse" -> [s EXCEPT !.err = wrapAll(@, decodeError(m))]
      [] OTHER -> Return([s EXCEPT !.unrec = TRUE], fallThrough(m))

\* r.Next(done.Chan): the next message of the connection, unless done is
\* signalled or the read fails (line 84); then lines 101-105.
ScriptLoop(c) ==
    /\ At(c, "script:loop")
    /\ LET s == cn[c]
       IN  IF s.isDone
           THEN Set(c, Return(s, s.err))
           ELSE \/ /\ s.wire # <<>>
                   /\ Set(c, scriptCase([s EXCEPT !.wire = Tail(@),
                                            !.readStale = @ \/ Head(s.wire).stale],
                                        Head(s.wire)))
                \/ \E e \in TransportErrs : 
                      Set(c, Return(Failed(s, e), TransportError(e)))
    /\ UNCHANGED <<caches, builtKeys, procs, dec>>

(* ------------------- part_000: Conn.writeAndRead ----------------------- *)

\* tmp := make([]byte, 1024) (part_000 lines 54, 56, 57).
ReadSize == 1024

\* edb.conn.Write(bts), which panics on an error (lines 49-51); rcv and n
\* are set up (lines 53-54).
ConnWrite(c, s, req, next) ==
    \/ \E r \in Responses(req) :
          Set(c, [Written(s, req, r, next) EXCEPT !.buf = <<>>, !.n = ReadSize])
    \/ \E e \in TransportErrs :
          Set(c, Return(Failed([s EXCEPT !.sent = Append(@, req.type)], e),
                        Panic(e)))

ReadSites == {"qwa:prepare:read", "qwa:describe:read", "qwa:execute:read"}
AfterRead(pc) ==
    CASE pc = "qwa:prepare:read" -> "qwa:prepare:loop"
      [] pc = "qwa:describe:read" -> "qwa:describe:loop"
      [] OTHER -> "qwa:execute:loop"

Prefix(w, k) == SubSeq(w, 1, k)

\* One pass of for n == 1024 { n, err = edb.conn.Read(tmp); ... }
\* (lines 56-63).  Read returns some of the messages that are on the wire,
\* at most 1024 bytes of them, and blocks while there are none.
ConnRead(c) ==
    /\ c \in procs
    /\ cn[c].pc \in ReadSites
    /\ LET s == cn[c]
       IN  IF s.n # ReadSize
           THEN Set(c, [s EXCEPT !.pc = AfterRead(s.pc)])
           ELSE \/ \E k \in 1..Len(s.wire) :
                      /\ BufLen(Prefix(s.wire, k)) <= ReadSize
                      /\ Set(c, [s EXCEPT
                            !.n = BufLen(Prefix(s.wire, k)),
                            !.buf = @ \o Prefix(s.wire, k),
                            !.wire = SubSeq(@, k + 1, Len(@)),
                            !.readStale = @ \/ \E i \in 1..k : s.wire[i].stale])
                \/ \E e \in TransportErrs : 
                      Set(c, Return(Failed(s, e), Panic(e)))
    /\ UNCHANGED <<caches, builtKeys, procs, dec>>

(* ------------------- part_000: Conn.QueryWithArgs ---------------------- *)

\* The query of QueryWithArgs: format.Binary, cardinality.Many (lines 82-83).
ConnQuery(cmd) ==
    [cmd |-> cmd, fmt |-> "Binary", expCard |-> "Many", state |-> FALSE]

\* QueryWithArgs is called; Prepare is written (lines 79-93).
QueryWithArgs(c, cmd) ==
    /\ Usable(c, "conn")
    /\ ConnWrite(c, Enter(cn[c], ConnQuery(cmd), "interface", FALSE,
                          "qwa:prepare:read"),
                 Req("Prepare", cmd), "qwa:prepare:read")
    /\ UNCHANGED <<caches, builtKeys, procs, dec>>

\* One message of the first loop (lines 95-113): the switch has no default.
qwaPrepareCase(s, m) ==
    CASE m.type = "PrepareComplete" -> [s EXCEPT !.ids = [in |-> m.a, out |-> m.b]]
      [] m.type = "ReadyForCommand" -> s
      [] m.type = "ErrorResponse" -> Return(s, Panic(m.a))
      [] OTHER -> [s EXCEPT !.unrec = TRUE]

\* for len(rcv) > 4 { ... } (lines 94-114).
RECURSIVE qwaPrepareLoop(_)
qwaPrepareLoop(s) ==
    IF s.pc = "done" THEN s
    ELSE IF BufLen(s.buf) > 4
         THEN qwaPrepareLoop(qwaPrepareCase([s EXCEPT !.buf = Tail(@)],
                                            Head(s.buf)))
         ELSE [s EXCEPT !.pc = "qwa:describe", !.buf = <<>>]

QwaPrepareLoop(c) ==
    /\ At(c, "qwa:prepare:loop")
    /\ Set(c, qwaPrepareLoop(cn[c]))
    /\ UNCHANGED <<caches, builtKeys, procs, dec>>

\* DescribeStatement is written (lines 116-127).
QwaDescribeWrite(c) ==
    /\ At(c, "qwa:describe")
    /\ ConnWrite(c, cn[c], Req("DescribeStatement", cn[c].prepared),
                 "qwa:describe:read")
    /\ UNCHANGED <<caches, builtKeys, procs, dec>>

\* One message of the second loop (lines 130-155): codecLookup takes the
\* codecs of both descriptors; the switch names neither ReadyForCommand
\* nor a default.
qwaDescribeCase(s, m) ==
    CASE m.type = "CommandDataDescription" ->
             [s EXCEPT !.descs = [in |-> m.a, out |-> m.b]]
      [] m.type = "ErrorResponse" -> Return(s, Panic(m.a))
      [] m.type = "ReadyForCommand" -> s
      [] OTHER -> [s EXCEPT !.unrec = TRUE]

\* for len(rcv) > 4 { ... } (lines 129-156).
RECURSIVE qwaDescribeLoop(_)
qwaDescribeLoop(s) ==
    IF s.pc = "done" THEN s
    ELSE IF BufLen(s.buf) > 4
         THEN qwaDescribeLoop(qwaDescribeCase([s EXCEPT !.buf = Tail(@)],
                                              Head(s.buf)))
         ELSE [s EXCEPT !.pc = "qwa:execute", !.buf = <<>>]

QwaDescribeLoop(c) ==
    /\ At(c, "qwa:describe:loop")
    /\ Set(c, qwaDescribeLoop(cn[c]))
    /\ UNCHANGED <<caches, builtKeys, procs, dec>>

\* The ID of the type a descriptor describes.
DescID(d) == CASE d = "d0" -> "u0" [] d = "d1" -> "u1" [] OTHER -> ""

\* argumentCodec := codecLookup[argumentCodecID]; resultCodec likewise;
\* argumentCodec.Encode panics on the nil codec of a failed lookup; Execute
\* is written (lines 158-171).
QwaExecuteWrite(c) ==
    /\ At(c, "qwa:execute")
    /\ LET s == cn[c]
           found == /\ s.ids.in # ""
                    /\ s.ids.in = DescID(s.descs.in)
                    /\ s.ids.out = DescID(s.descs.out)
       IN  IF ~found
           THEN Set(c, Return(s, Panic("nil codec")))
           ELSE ConnWrite(c, [s EXCEPT !.cdcs = buildCodecs(s.q, s.tp, s.descs)],
                          Req("Execute", s.prepared), "qwa:execute:read")
    /\ UNCHANGED <<caches, builtKeys, procs, dec>>

\* One message of the third loop (lines 174-192): no default.
qwaExecuteCase(s, m) ==
    CASE m.type = "Data" -> [s EXCEPT !.o = Append(@, Decode(s.cdcs, m.a))]
      [] m.type = "CommandComplete" -> s
      [] m.type = "ReadyForCommand" -> s
      [] m.type = "ErrorResponse" -> Return(s, Panic(m.a))
      [] OTHER -> [s EXCEPT !.unrec = TRUE]

\* for len(rcv) > 0 { ... }; return out, nil (lines 173-194).
RECURSIVE qwaExecuteLoop(_)
qwaExecuteLoop(s) ==
    IF s.pc = "done" THEN s
    ELSE IF BufLen(s.buf) > 0
         THEN qwaExecuteLoop(qwaExecuteCase([s EXCEPT !.buf = Tail(@)],
                                            Head(s.buf)))
         ELSE Return([s EXCEPT !.out = s.o], Nil)

QwaExecuteLoop(c) ==
    /\ At(c, "qwa:execute:loop")
    /\ Set(c, qwaExecuteLoop(cn[c]))
    /\ UNCHANGED <<caches, builtKeys, procs, dec>>

(* --------------------------- specification ---------------------------- *)

Next ==
    \E c \in Conns :
        \/ NewConnection(c)
        \/ \E cmd \in Cmds, tp \in Shapes, reuse \in BOOLEAN :
               granularFlow(c, cmd, tp, reuse)
        \/ GetCodecs(c)
        \/ GetDescriptors(c)
        \/ GranularBuildCodecs(c)
        \/ GranularPutCodecs(c)
        \/ PrepareWrite(c)
        \/ PrepareRead(c)
        \/ PrepareLoop(c)
        \/ GetDescriptorsByID(c)
        \/ DescribeWrite(c)
        \/ DescribeRead(c)
        \/ DescribeLoop(c)
        \/ PutDescriptorsByID(c)
        \/ PutDescriptors(c)
        \/ PesimisticBuildCodecs(c)
        \/ PesimisticPutCodecs(c)
        \/ ExecuteWrite(c)
        \/ ExecuteRead(c)
        \/ ExecuteLoop(c)
        \/ OptimisticWrite(c)
        \/ OptimisticRead(c)
        \/ OptimisticLoop(c)
        \/ \E cmd \in Cmds, state \in BOOLEAN : execScriptFlow(c, cmd, state)
        \/ ScriptLoop(c)
        \/ \E cmd \in Cmds : QueryWithArgs(c, cmd)
        \/ ConnRead(c)
        \/ QwaPrepareLoop(c)
        \/ QwaDescribeWrite(c)
        \/ QwaDescribeLoop(c)
        \/ QwaExecuteWrite(c)
        \/ QwaExecuteLoop(c)

Spec == Init /\ [][Next]_vars

(* ------------------ two connections at the same time ------------------ *)

\* The output shape the concurrent calls ask for.
ConcShape == "T1"

\* Both connections of the process run, on the Client.
InitConc ==
    /\ dec = NoDec
    /\ codecCache = [k \in {} |-> NoCodecs]
    /\ descCache = [k \in {} |-> NoDescs]
    /\ descIDCache = [k \in {} |-> NoDescs]
    /\ builtKeys = {}
    /\ procs = Conns
    /\ cn = [c \in Conns |-> Fresh("client")]

\* Each connection carries one call of granularFlow; the steps of the two
\* calls interleave in any order.
NextConc ==
    \E c \in Conns :
        \/ \E cmd \in Cmds :
               cn[c].q = NoQuery /\ granularFlow(c, cmd, ConcShape, FALSE)
        \/ GetCodecs(c)
        \/ GetDescriptors(c)
        \/ GranularBuildCodecs(c)
        \/ GranularPutCodecs(c)
        \/ PrepareWrite(c)
        \/ PrepareRead(c)
        \/ PrepareLoop(c)
        \/ GetDescriptorsByID(c)
        \/ DescribeWrite(c)
        \/ DescribeRead(c)
        \/ DescribeLoop(c)
        \/ PutDescriptorsByID(c)
        \/ PutDescriptors(c)
        \/ PesimisticBuildCodecs(c)
        \/ PesimisticPutCodecs(c)
        \/ ExecuteWrite(c)
        \/ ExecuteRead(c)
        \/ ExecuteLoop(c)
        \/ OptimisticWrite(c)
        \/ OptimisticRead(c)
        \/ OptimisticLoop(c)

SpecConc == InitConc /\ [][NextConc]_vars

(* ------------- codegen.rst: the builder of object decoders ------------- *)

\* The largest number of fields of a descriptor, a struct or a value.
MaxFields == 2

\* The two generations of descriptors: buildObjectDecoder and BuildDecoder
\* work on the first, buildObjectDecoderV2 and BuildDecoderV2 on the second.
Versions == {"V1", "V2"}

\* Descriptors: a scalar has no fields; a field of an object is
\* [name, desc, required].  The i-th field name is i.
ScalarDesc(kind) == [kind |-> kind, fields |-> <<>>]
ObjectDesc(fields) == [kind |-> "object", fields |-> fields]

\* Output types (reflect.Type): a scalar type, or a Struct with its fields
\* [name, offset, type]; optional says that the pointer to the struct
\* implements OptionalUnmarshaler (it embeds edgedb.Optional).
ScalarType(kind) == [kind |-> kind, fields |-> <<>>, optional |-> FALSE]
StructType(fields, optional) ==
    [kind |-> "Struct", fields |-> fields, optional |-> optional]

\* sf.Offset: the marker of edgedb.Optional comes first, then the fields
\* in the order the struct declares them.
Offset(optional, i) == (IF optional THEN 8 ELSE 0) + 32 * (i - 1)

\* The struct that declares the fields named names[i] of type types[i].
StructOf(names, types, optional) ==
    StructType([i \in 1..Len(names) |->
                   [name |-> names[i], offset |-> Offset(optional, i),
                    type |-> types[i]]], optional)

\* Decoders: [type, fields]; a field of an object decoder is a DecoderField
\* [name, offset, decoder] (lines 125-129, 199-202).
NoDecoder == [type |-> "", fields |-> <<>>]
ScalarDecoder(type) == [type |-> type, fields |-> <<>>]

\* child.(OptionalDecoder): the decoder has DecodeMissing.
OptionalDecoders ==
    {"optionalStrDecoder", "optionalObjectDecoder"}
IsOptionalDecoder(d) == d.type \in OptionalDecoders

\* optionalTypeNameLookup (lines 60-81), for the decoder types used here.
optionalTypeNameLookup ==
    [t \in {"Int32Codec", "StrCodec", "objectDecoder"} |->
        CASE t = "Int32Codec" -> "edgedb.OptionalInt32"
          [] t = "StrCodec" -> "edgedb.OptionalStr"
          [] OTHER -> "edgedb.Optional"]

\* What a builder returns: a decoder and no error, or an error.
Built0(decoder) == [err |-> "", typeName |-> "", decoder |-> decoder]
BuildFailed(err, typeName) ==
    [err |-> err, typeName |-> typeName, decoder |-> NoDecoder]

\* introspect.StructField: the position of the field of that name, or 0.
StructField(typ, name) ==
    IF \E i \in 1..Len(typ.fields) : typ.fields[i].name = name
    THEN CHOOSE i \in 1..Len(typ.fields) : typ.fields[i].name = name
    ELSE 0

\* Mutant: a field that is not required takes any decoder.
optionalCheck_Skip(field, child) == Built0(child)

\* if !field.Required { if _, isOptional := child.(OptionalDecoder);
\* !isOptional { ... return nil, fmt.Errorf(...) } } (lines 113-123,
\* 171-181).
optionalCheck(field, child) ==
    IF ~field.required /\ ~IsOptionalDecoder(child)
    THEN BuildFailed("not required",
                     IF child.type \in DOMAIN optionalTypeNameLookup
                     THEN optionalTypeNameLookup[child.type]
                     ELSE "OptionalUnmarshaler interface")
    ELSE Built0(child)

RECURSIVE BuildDecoder(_, _, _)
RECURSIVE buildFields(_, _, _, _, _)
RECURSIVE buildObject(_, _, _)

\* BuildDecoder and BuildDecoderV2: the decoder for a descriptor and an
\* output type, or the error of a type that does not fit.
BuildDecoder(ver, desc, typ) ==
    CASE desc.kind = "object" -> buildObject(ver, desc, typ)
      [] desc.kind = "int32" /\ typ.kind = "int32" ->
             Built0(ScalarDecoder("Int32Codec"))
      [] desc.kind = "str" /\ typ.kind = "string" ->
             Built0(ScalarDecoder("StrCodec"))
      [] desc.kind = "str" /\ typ.kind = "OptionalStr" ->
             Built0(ScalarDecoder("optionalStrDecoder"))
      [] desc.kind = "str" /\ typ.kind = "Unmarshaler" ->
             Built0(ScalarDecoder("unmarshalerDecoder"))
      [] OTHER -> BuildFailed("unexpected type", "")

\* Mutant: a field takes the offset of the struct field at its position.
buildFields_ByPosition(ver, desc, typ, i, fields) ==
    IF i > Len(desc.fields)
    THEN Built0([type |-> "", fields |-> fields])
    ELSE LET field == desc.fields[i]
             sf == StructField(typ, field.name)
         IN  IF sf = 0
             THEN BuildFailed("no field named", "")
             ELSE LET child == BuildDecoder(ver, field.desc, typ.fields[sf].type)
                      checked == optionalCheck(field, child.decoder)
                  IN  IF child.err # "" THEN child
                      ELSE IF checked.err # "" THEN checked
                      ELSE buildFields(ver, desc, typ, i + 1,
                               Append(fields,
                                   [name |-> field.name,
                                    offset |-> IF i <= Len(typ.fields)
                                               THEN typ.fields[i].offset
                                               ELSE 0,
                                    decoder |-> child.decoder]))

\* for i, field := range desc.Fields { ... } from field i on (lines 96-130,
\* 154-188); fields holds the DecoderFields made so far.
buildFields(ver, desc, typ, i, fields) ==
    IF i > Len(desc.fields)
    THEN Built0([type |-> "", fields |-> fields])
    ELSE LET field == desc.fields[i]
             sf == StructField(typ, field.name)
         IN  IF sf = 0
             THEN BuildFailed("no field named", "")
             ELSE LET child == BuildDecoder(ver, field.desc, typ.fields[sf].type)
                      checked == optionalCheck(field, child.decoder)
                  IN  IF child.err # "" THEN child
                      ELSE IF checked.err # "" THEN checked
                      ELSE buildFields(ver, desc, typ, i + 1,
                               Append(fields,
                                   [name |-> field.name,
                                    offset |-> typ.fields[sf].offset,
                                    decoder |-> child.decoder]))

\* The body buildObjectDecoder and buildObjectDecoderV2 share (lines 88-138,
\* 146-196).
buildObject(ver, desc, typ) ==
    IF typ.kind # "Struct"
    THEN BuildFailed("expected Struct", "")
    ELSE LET r == buildFields(ver, desc, typ, 1, <<>>)
         IN  IF r.err # "" THEN r
             ELSE Built0([type |-> IF typ.optional THEN "optionalObjectDecoder"
                                   ELSE "objectDecoder",
                          fields |-> r.decoder.fields])

buildObjectDecoder(desc, typ) == buildObject("V1", desc, typ)
buildObjectDecoderV2(desc, typ) == buildObject("V2", desc, typ)

\* The inputs of the builder: a field of a descriptor with the type of the
\* output field of its name.
StrDesc == ScalarDesc("str")
Int32Desc == ScalarDesc("int32")
InnerDesc(required) ==
    ObjectDesc(<<[name |-> 1, desc |-> StrDesc, required |-> required]>>)
InnerType(optional) ==
    StructOf(<<1>>, <<ScalarType("string")>>, optional)

FieldCase(desc, required, type) ==
    [desc |-> desc, required |-> required, type |-> type]

FieldCases ==
    { FieldCase(Int32Desc, TRUE, ScalarType("int32")),
      FieldCase(Int32Desc, FALSE, ScalarType("int32")),
      FieldCase(StrDesc, TRUE, ScalarType("string")),
      FieldCase(StrDesc, TRUE, ScalarType("int32")),
      FieldCase(StrDesc, FALSE, ScalarType("string")),
      FieldCase(StrDesc, FALSE, ScalarType("OptionalStr")),
      FieldCase(StrDesc, FALSE, ScalarType("Unmarshaler")),
      FieldCase(InnerDesc(TRUE), TRUE, InnerType(FALSE)),
      FieldCase(InnerDesc(TRUE), FALSE, InnerType(FALSE)),
      FieldCase(InnerDesc(TRUE), FALSE, InnerType(TRUE)),
      FieldCase(InnerDesc(FALSE), TRUE, InnerType(FALSE)) }

RECURSIVE CaseSeqs(_)
CaseSeqs(n) ==
    IF n = 0 THEN {<<>>}
    ELSE LET shorter == CaseSeqs(n - 1)
         IN  shorter \cup {Append(s, f) : s \in {t \in shorter : Len(t) = n - 1},
                                          f \in FieldCases}

Reverse(s) == [i \in 1..Len(s) |-> s[Len(s) + 1 - i]]

\* The descriptor of the fields cs, and an output type for it: plain,
\* "optional" (an OptionalUnmarshaler), "reversed" (the struct declares
\* the fields in the opposite order), "short" (the struct lacks the last
\* field), "scalar" (no struct at all).
Layouts == {"plain", "optional", "reversed", "short", "scalar"}

DescOf(cs) ==
    ObjectDesc([i \in 1..Len(cs) |->
                   [name |-> i, desc |-> cs[i].desc, required |-> cs[i].required]])

TypeOf(cs, layout) ==
    LET names == [i \in 1..Len(cs) |-> i]
        types == [i \in 1..Len(cs) |-> cs[i].type]
    IN  CASE layout = "scalar" -> ScalarType("int32")
          [] layout = "reversed" ->
                 StructOf(Reverse(names), Reverse(types), FALSE)
          [] layout = "short" /\ cs # <<>> ->
                 StructOf(SubSeq(names, 1, Len(cs) - 1),
                          SubSeq(types, 1, Len(cs) - 1), FALSE)
          [] OTHER -> StructOf(names, types, layout = "optional")

(* ------------------ codegen.rst: objectDecoder.Decode ------------------ *)

\* PushUint32 and PopUint32: 4 bytes, the most significant first.  A value
\* from 2^31 on is read as 2^31 - 1: it is only ever compared with lengths
\* and field counts, which are all smaller.
Uint32Bytes(n) ==
    <<(n \div 16777216) % 256, (n \div 65536) % 256, (n \div 256) % 256, n % 256>>
Uint32(b) ==
    IF b[1] >= 128 THEN 2147483647
    ELSE b[1] * 16777216 + b[2] * 65536 + b[3] * 256 + b[4]

\* An int32 on the wire: 4 bytes in two's complement.
Int32Bytes(v) ==
    IF v >= 0 THEN Uint32Bytes(v)
    ELSE [i \in 1..4 |-> 255 - Uint32Bytes(-(v + 1))[i]]
Int32Of(b) ==
    IF b[1] < 128 THEN Uint32(b)
    ELSE -((255 - b[1]) * 16777216 + (255 - b[2]) * 65536
           + (255 - b[3]) * 256 + (255 - b[4])) - 1

\* elmLen == 0xffffffff (line 219).
MissingLength == <<255, 255, 255, 255>>

\* The 4 bytes of the reserved marker (line 215).
Reserved == <<0, 0, 0, 0>>

\* A place of the destination: what it holds, and whether it is marked
\* missing (absent).
Slot(val, missing) == [val |-> val, missing |-> missing]

\* The zero value of an output type at an address, and a value an earlier
\* decoding has left there.
ScalarSlot(kind, dirty) ==
    CASE kind = "int32" -> Slot(IF dirty THEN 7 ELSE 0, FALSE)
      [] kind = "OptionalStr" -> Slot(IF dirty THEN <<122>> ELSE <<>>, ~dirty)
      [] OTHER -> Slot(IF dirty THEN <<122>> ELSE <<>>, FALSE)

RECURSIVE Slots(_, _, _)
Slots(typ, base, dirty) ==
    IF typ.kind = "Struct"
    THEN (IF typ.optional THEN {<<base, Slot(<<>>, dirty)>>} ELSE {})
         \cup UNION {Slots(typ.fields[i].type, base + typ.fields[i].offset, dirty) :
                        i \in 1..Len(typ.fields)}
    ELSE {<<base, ScalarSlot(typ.kind, dirty)>>}

\* The destination of a call: the memory of a value of type typ at
\* address 0.
Mem(typ, dirty) ==
    LET ps == Slots(typ, 0, dirty)
    IN  [a \in {p[1] : p \in ps} |-> (CHOOSE p \in ps : p[1] = a)[2]]

\* A reader and what decoding has done so far: buf are the bytes left in
\* the reader, mem the destination, log the calls of Decode and
\* DecodeMissing on field decoders (with the bytes left in the caller's
\* reader when the call is made), err the error ("" is nil).
Reading(buf, mem) == [buf |-> buf, mem |-> mem, log |-> <<>>, err |-> ""]

Logged(st, op, p, d, slice) ==
    [st EXCEPT !.log = Append(@, [op |-> op, at |-> p, type |-> d.type,
                                  slice |-> slice, left |-> Len(st.buf)])]

\* A pop beyond the end of the buffer, and the failed type assertion of
\* line 222, panic.
ShortBuffer == "panic: short buffer"
NotOptional == "panic: not an OptionalDecoder"
WrongNumber == "wrong number of object fields"
Panicked(st, what) == [st EXCEPT !.err = what]

Store(st, p, slot) == [st EXCEPT !.mem = [@ EXCEPT ![p] = slot]]

\* DecodeMissing of an OptionalDecoder: optionalObjectDecoder calls
\* SetMissing(true) (lines 238-242); the optional scalar is unset.
DecodeMissing(d, st, p) == Store(st, p, Slot(<<>>, TRUE))

RECURSIVE DecodeValue(_, _, _)
RECURSIVE DecodeField(_, _, _)
RECURSIVE decodeFields(_, _, _, _)
RECURSIVE objectDecoderDecode(_, _, _)

\* Mutant: the reserved marker is not skipped.
DecodeField_NoReserved(field, st, out) ==
    IF Len(st.buf) < 4 THEN Panicked(st, ShortBuffer)
    ELSE LET p == out + field.offset
             elmLen == SubSeq(st.buf, 1, 4)
             r == [st EXCEPT !.buf = SubSeq(@, 5, Len(@))]
         IN  IF elmLen = MissingLength
             THEN IF IsOptionalDecoder(field.decoder)
                  THEN DecodeMissing(field.decoder,
                           Logged(r, "DecodeMissing", p, field.decoder, <<>>), p)
                  ELSE Panicked(r, NotOptional)
             ELSE IF Uint32(elmLen) > Len(r.buf) THEN Panicked(r, ShortBuffer)
             ELSE LET slice == SubSeq(r.buf, 1, Uint32(elmLen))
                      rest == SubSeq(r.buf, Uint32(elmLen) + 1, Len(r.buf))
                      child == DecodeValue(field.decoder,
                                   [Logged(r, "Decode", p, field.decoder, slice)
                                       EXCEPT !.buf = slice], p)
                  IN  [child EXCEPT !.buf = rest]

\* Mutant: an element of length zero counts as missing, too.
DecodeField_EmptyIsMissing(field, st, out) ==
    IF Len(st.buf) < 8 THEN Panicked(st, ShortBuffer)
    ELSE LET p == out + field.offset
             elmLen == SubSeq(st.buf, 5, 8)
             r == [st EXCEPT !.buf = SubSeq(@, 9, Len(@))]
         IN  IF elmLen = MissingLength \/ Uint32(elmLen) = 0
             THEN IF IsOptionalDecoder(field.decoder)
                  THEN DecodeMissing(field.decoder,
                           Logged(r, "DecodeMissing", p, field.decoder, <<>>), p)
                  ELSE Panicked(r, NotOptional)
             ELSE IF Uint32(elmLen) > Len(r.buf) THEN Panicked(r, ShortBuffer)
             ELSE LET slice == SubSeq(r.buf, 1, Uint32(elmLen))
                      rest == SubSeq(r.buf, Uint32(elmLen) + 1, Len(r.buf))
                      child == DecodeValue(field.decoder,
                                   [Logged(r, "Decode", p, field.decoder, slice)
                                       EXCEPT !.buf = slice], p)
                  IN  [child EXCEPT !.buf = rest]

\* Mutant: the reader goes on where the field's decoder has stopped.
DecodeField_AdvanceByChild(field, st, out) ==
    IF Len(st.buf) < 8 THEN Panicked(st, ShortBuffer)
    ELSE LET p == out + field.offset
             elmLen == SubSeq(st.buf, 5, 8)
             r == [st EXCEPT !.buf = SubSeq(@, 9, Len(@))]
         IN  IF elmLen = MissingLength
             THEN IF IsOptionalDecoder(field.decoder)
                  THEN DecodeMissing(field.decoder,
                           Logged(r, "DecodeMissing", p, field.decoder, <<>>), p)
                  ELSE Panicked(r, NotOptional)
             ELSE IF Uint32(elmLen) > Len(r.buf) THEN Panicked(r, ShortBuffer)
             ELSE LET slice == SubSeq(r.buf, 1, Uint32(elmLen))
                      rest == SubSeq(r.buf, Uint32(elmLen) + 1, Len(r.buf))
                      child == DecodeValue(field.decoder,
                                   [Logged(r, "Decode", p, field.decoder, slice)
                                       EXCEPT !.buf = slice], p)
                  IN  [child EXCEPT !.buf = @ \o rest]

\* The body of the loop over the fields (lines 215-228): r.Discard(4),
\* p := pAdd(out, field.offset), elmLen := r.PopUint32(), then
\* DecodeMissing(p) or Decode(r.PopSlice(elmLen), p).  PopSlice moves r
\* past the element, whatever the field decoder reads of it.
DecodeField(field, st, out) ==
    IF Len(st.buf) < 8 THEN Panicked(st, ShortBuffer)
    ELSE LET p == out + field.offset
             elmLen == SubSeq(st.buf, 5, 8)
             r == [st EXCEPT !.buf = SubSeq(@, 9, Len(@))]
         IN  IF elmLen = MissingLength
             THEN IF IsOptionalDecoder(field.decoder)
                  THEN DecodeMissing(field.decoder,
                           Logged(r, "DecodeMissing", p, field.decoder, <<>>), p)
                  ELSE Panicked(r, NotOptional)
             ELSE IF Uint32(elmLen) > Len(r.buf) THEN Panicked(r, ShortBuffer)
             ELSE LET slice == SubSeq(r.buf, 1, Uint32(elmLen))
                      rest == SubSeq(r.buf, Uint32(elmLen) + 1, Len(r.buf))
                      child == DecodeValue(field.decoder,
                                   [Logged(r, "Decode", p, field.decoder, slice)
                                       EXCEPT !.buf = slice], p)
                  IN  [child EXCEPT !.buf = rest]

\* Mutant: the loop goes on after a field has failed.
decodeFields_IgnoreError(d, i, st, out) ==
    IF i > Len(d.fields) \/ st.err \in {ShortBuffer, NotOptional} THEN st
    ELSE decodeFields(d, i + 1, DecodeField(d.fields[i], st, out), out)

\* for _, field := range c.fields { ... } from field i on; return nil
\* (lines 214-230).
decodeFields(d, i, st, out) ==
    IF i > Len(d.fields) \/ st.err # "" THEN st
    ELSE decodeFields(d, i + 1, DecodeField(d.fields[i], st, out), out)

\* Mutant: the element count is read and not compared.
objectDecoderDecode_NoCountCheck(d, st, out) ==
    IF Len(st.buf) < 4 THEN Panicked(st, ShortBuffer)
    ELSE decodeFields(d, 1, [st EXCEPT !.buf = SubSeq(@, 5, Len(@))], out)

\* objectDecoder.Decode (lines 206-231).
objectDecoderDecode(d, st, out) ==
    IF Len(st.buf) < 4 THEN Panicked(st, ShortBuffer)
    ELSE LET elmCount == Uint32(SubSeq(st.buf, 1, 4))
             r == [st EXCEPT !.buf = SubSeq(@, 5, Len(@))]
         IN  IF elmCount # Len(d.fields)
             THEN [r EXCEPT !.err = WrongNumber]
             ELSE decodeFields(d, 1, r, out)

\* Mutant: SetMissing is not called.
optionalObjectDecoderDecode_NoSetMissing(d, st, out) ==
    objectDecoderDecode(d, st, out)

\* optionalObjectDecoder.Decode (lines 244-252): SetMissing(false), then
\* the Decode of the objectDecoder it embeds.
optionalObjectDecoderDecode(d, st, out) ==
    objectDecoderDecode(d, Store(st, out, Slot(<<>>, FALSE)), out)

\* field.decoder.Decode(r, p): the Decode of the decoder's type.  The
\* scalar decoders read what their type needs of r and store it at p.
DecodeValue(d, st, p) ==
    CASE d.type = "objectDecoder" -> objectDecoderDecode(d, st, p)
      [] d.type = "optionalObjectDecoder" -> optionalObjectDecoderDecode(d, st, p)
      [] d.type = "Int32Codec" ->
             IF Len(st.buf) < 4 THEN Panicked(st, ShortBuffer)
             ELSE [Store(st, p, Slot(Int32Of(SubSeq(st.buf, 1, 4)), FALSE))
                      EXCEPT !.buf = SubSeq(@, 5, Len(@))]
      [] OTHER -> [Store(st, p, Slot(st.buf, FALSE)) EXCEPT !.buf = <<>>]

(* ------------------- compound values on the wire ----------------------- *)

RECURSIVE Flatten(_)
Flatten(ss) == IF ss = <<>> THEN <<>> ELSE Head(ss) \o Flatten(Tail(ss))

\* An element of a compound value: the reserved marker, the length of the
\* element and its bytes; a missing element has the length 0xffffffff and
\* no bytes.
Element(bytes) == Reserved \o Uint32Bytes(Len(bytes)) \o bytes
MissingElement == Reserved \o MissingLength

\* A compound value: the number of elements, then the elements.
Compound(count, elems) == Uint32Bytes(count) \o Flatten(elems)

\* The values of the elements a server sends: nothing (missing), the empty
\* string, 4 bytes (the int32 5, and no object of one field), and an
\* object of one field that holds the string "hi".
Hi == <<104, 105>>
Five == <<0, 0, 0, 5>>
ElementValues == {<<"missing">>, <<>>, Five, Compound(1, <<Element(Hi)>>)}
ElementOf(v) == IF v = <<"missing">> THEN MissingElement ELSE Element(v)

RECURSIVE ValueSeqs(_)
ValueSeqs(n) ==
    IF n = 0 THEN {<<>>}
    ELSE {Append(s, v) : s \in ValueSeqs(n - 1), v \in ElementValues}

\* NamedTuple.Encode: the data length, the number of elements and one
\* element per field (the bytes of TestEncodeNamedTuple, lines 405-414).
EncodeNamedTuple(vals) ==
    LET data == Compound(Len(vals),
                         [i \in 1..Len(vals) |-> Element(Int32Bytes(vals[i]))])
    IN  Uint32Bytes(Len(data)) \o data

\* int32 values of named tuples.
Int32Values == {5, 6, 0, -1, 2147483647, -2147483647 - 1}

RECURSIVE Int32Seqs(_)
Int32Seqs(n) ==
    IF n = 0 THEN {<<>>}
    ELSE LET shorter == Int32Seqs(n - 1)
         IN  shorter \cup {Append(s, v) : s \in {t \in shorter : Len(t) = n - 1},
                                          v \in Int32Values}

\* The descriptor and the struct of a named tuple of n int32
\* (SomeThing{A int32; B int32} of TestDecodeNamedTuple, lines 328-338).
Int32Fields(n) ==
    [i \in 1..n |-> FieldCase(Int32Desc, TRUE, ScalarType("int32"))]

(* --------------------- the builder and decoder at work ----------------- *)

\* Nothing is built yet.
DecStart ==
    [ pc      |-> "start",
      ver     |-> "",
      desc    |-> ObjectDesc(<<>>),
      typ     |-> ScalarType(""),
      built   |-> BuildFailed("", ""),    \* what the builder returned
      count   |-> 0,                      \* the element count of the value
      values  |-> <<>>,                   \* the element values of the value
      vals    |-> <<>>,                   \* the named tuple that was encoded
      wire    |-> <<>>,                   \* the bytes given to the decoder
      mem     |-> << >>,                  \* the destination before the call
      res     |-> Reading(<<>>, << >>) ]  \* the reader and destination after

InitDec ==
    /\ dec = DecStart
    /\ codecCache = [k \in {} |-> NoCodecs]
    /\ descCache = [k \in {} |-> NoDescs]
    /\ descIDCache = [k \in {} |-> NoDescs]
    /\ builtKeys = {}
    /\ procs = {}
    /\ cn = [c \in Conns |-> Fresh("client")]

Flows == <<codecCache, descCache, descIDCache, builtKeys, procs, cn>>

\* buildObjectDecoder or buildObjectDecoderV2 is called.
Build(ver, desc, typ) ==
    /\ dec.pc = "start"
    /\ LET r == IF ver = "V1" THEN buildObjectDecoder(desc, typ)
                ELSE buildObjectDecoderV2(desc, typ)
       IN  dec' = [dec EXCEPT !.pc = IF r.err = "" THEN "built" ELSE "failed",
                              !.ver = ver, !.desc = desc, !.typ = typ,
                              !.built = r]
    /\ UNCHANGED Flows

\* Decode of the decoder that was built is called on a reader that holds
\* one compound value, with the destination new or used before.
DecodeCall(count, values, dirty) ==
    /\ dec.pc = "built"
    /\ Len(values) = Len(dec.built.decoder.fields)
    /\ LET wire == Compound(count, [i \in 1..Len(values) |-> ElementOf(values[i])])
           mem == Mem(dec.typ, dirty)
       IN  dec' = [dec EXCEPT !.pc = "decoded", !.count = count,
                              !.values = values, !.wire = wire, !.mem = mem,
                              !.res = DecodeValue(dec.built.decoder,
                                                  Reading(wire, mem), 0)]
    /\ UNCHANGED Flows

\* A named tuple of int32 is encoded, and the decoder for it is built.
EncodeCall(vals) ==
    /\ dec.pc = "start"
    /\ LET cs == Int32Fields(Len(vals))
       IN  dec' = [dec EXCEPT !.pc = "encoded", !.ver = "V1",
                              !.desc = DescOf(cs), !.typ = TypeOf(cs, "plain"),
                              !.built = buildObjectDecoder(DescOf(cs),
                                                           TypeOf(cs, "plain")),
                              !.vals = vals, !.wire = EncodeNamedTuple(vals)]
    /\ UNCHANGED Flows

\* The bytes are decoded: the reader of the value is the slice of the data
\* length, as for every element (lines 218, 224).
DecodeEncoded(dirty) ==
    /\ dec.pc = "encoded"
    /\ LET n == Uint32(SubSeq(dec.wire, 1, 4))
           slice == SubSeq(dec.wire, 5, 4 + n)
           mem == Mem(dec.typ, dirty)
       IN  dec' = [dec EXCEPT !.pc = "roundtrip", !.mem = mem,
                              !.res = DecodeValue(dec.built.decoder,
                                                  Reading(slice, mem), 0)]
    /\ UNCHANGED Flows

\* The next call.
DecDone ==
    /\ dec.pc \in {"failed", "decoded", "roundtrip"}
    /\ dec' = DecStart
    /\ UNCHANGED Flows

NextDec ==
    \/ /\ dec.pc = "start"
       /\ \E ver \in Versions, cs \in CaseSeqs(MaxFields), layout \in Layouts :
              Build(ver, DescOf(cs), TypeOf(cs, layout))
    \/ /\ dec.pc = "built"
       /\ \E count \in 0..MaxFields,
             values \in ValueSeqs(Len(dec.built.decoder.fields)),
             dirty \in BOOLEAN :
              DecodeCall(count, values, dirty)
    \/ /\ dec.pc = "start"
       /\ \E vals \in Int32Seqs(MaxFields) : EncodeCall(vals)
    \/ \E dirty \in BOOLEAN : DecodeEncoded(dirty)
    \/ DecDone

SpecDec == InitDec /\ [][NextDec]_vars

(* ------------------------------ claims -------------------------------- *)

Last(seq) == seq[Len(seq)]

DataOf(resp) == SelectSeq(resp, LAMBDA m : m.type = "Data")

ExecRequests == {"Execute", "OptimisticExecute"}

\* A call of granularFlow has returned from the response loop of execute
\* or optimistic: its last request was Execute or OptimisticExecute and the
\* transport delivered the response, which is s.resp.
Executed(s) ==
    /\ s.kind = "client"
    /\ s.pc = "done"
    /\ s.sent # <<>>
    /\ Last(s.sent) \in ExecRequests
    /\ s.ioErr = ""

OptimisticPcs == {"getCodecs", "optimistic", "optimistic:read",
                  "optimistic:loop", "done"}

\* C1: a call of granularFlow whose (query, output shape) an earlier call
\* has built and cached codecs for takes the optimistic path: it goes from
\* the codec lookup straight to optimistic, builds and caches nothing,
\* writes no Prepare and no DescribeStatement and, once it has returned,
\* has written exactly one OptimisticExecute.  Whatever the Execute of the
\* building call returned, what was built stays in the codec cache.
C1_CachedCallIsOptimistic ==
    /\ builtKeys \subseteq DOMAIN codecCache
    /\ \A c \in procs :
          LET s == cn[c]
          IN  s.kind = "client" /\ s.hit =>
                  /\ s.pc \in OptimisticPcs
                  /\ s.puts = {}
                  /\ s.sent \in {<<>>, <<"OptimisticExecute">>}
                  /\ s.pc = "done" => s.sent = <<"OptimisticExecute">>

\* A call for cached codecs has returned rows.
C1_Witness ==
    \E c \in procs :
        /\ cn[c].hit
        /\ cn[c].pc = "done"
        /\ cn[c].ret = Nil
        /\ cn[c].out # <<>>

ExecPcs == {"execute", "execute:read", "execute:loop",
            "optimistic", "optimistic:read", "optimistic:loop"}

\* C2: every entry of the codec cache was built for the query and the
\* output shape of its key from the descriptors of that query, and a call
\* that is in execute or optimistic holds the codecs of its own query and
\* its own output shape, which are in the cache under its key; a call whose
\* key no call had built before has built and put them itself.
C2_CodecsMatchKey ==
    /\ \A k \in DOMAIN codecCache :
          /\ codecCache[k].cmd = k.cmd
          /\ codecCache[k].expCard = k.expCard
          /\ codecCache[k].tp = k.tp
          /\ codecCache[k].in = Descriptors(k.cmd).in
          /\ codecCache[k].out = Descriptors(k.cmd).out
    /\ \A c \in procs :
          LET s == cn[c]
          IN  s.kind = "client" /\ s.pc \in ExecPcs =>
                  /\ s.cdcs.tp = s.tp
                  /\ s.cdcs.cmd = s.q.cmd
                  /\ CodecKey(s.q, s.tp) \in DOMAIN codecCache
                  /\ ~s.hit => "codecs" \in s.puts

\* A call with a new output shape for a query that has codecs for another
\* shape in the cache has built its own and is about to execute.
C2_Witness ==
    \E c \in procs :
        /\ cn[c].pc = "optimistic"
        /\ ~cn[c].hit
        /\ \E k \in DOMAIN codecCache :
              k.cmd = cn[c].q.cmd /\ k.tp # cn[c].tp

\* C3: when a call returns a decoded server error, the response that held
\* the ErrorResponse has been read from the connection through its
\* ReadyForCommand: no message is left on the wire.
C3_ErrorReturnedAfterDrain ==
    \A c \in procs :
        LET s == cn[c]
        IN  s.ret.kind = "server" =>
                /\ s.pc = "done"
                /\ \E i \in 1..Len(s.resp) : s.resp[i].type = "ErrorResponse"
                /\ Last(s.resp).type = "ReadyForCommand"
                /\ s.wire = <<>>

\* execScriptFlow has returned a server error.
C3_Witness ==
    \E c \in procs :
        /\ cn[c].kind = "script"
        /\ cn[c].ret.kind = "server"
        /\ cn[c].wire = <<>>

\* C4: with cardinality one, a response to Execute or OptimisticExecute
\* that holds only CommandComplete and ReadyForCommand makes the call
\* return ErrorZeroResults, which is no server error.
C4_ZeroResultsForOne ==
    \A c \in procs :
        LET s == cn[c]
        IN  /\ Executed(s)
            /\ flat(s.q)
            /\ \A i \in 1..Len(s.resp) :
                  s.resp[i].type \in {"CommandComplete", "ReadyForCommand"}
            => /\ s.ret = ErrorZeroResults
               /\ \A e \in ServerErrs : s.ret # ServerError(e)

\* A cardinality-one call has returned ErrorZeroResults.
C4_Witness ==
    \E c \in procs :
        /\ Executed(cn[c])
        /\ flat(cn[c].q)
        /\ cn[c].ret = ErrorZeroResults

\* C5: a call returns ErrorZeroResults only when the cardinality is one and
\* no Data message arrived.
C5_ZeroResultsOnlyForOne ==
    \A c \in procs :
        LET s == cn[c]
        IN  s.ret = ErrorZeroResults =>
                flat(s.q) /\ DataOf(s.resp) = <<>>

\* C6: with cardinality many, after a call that succeeded the destination
\* is as long as the number of Data messages of the response to that call,
\* whatever it held when the call began.
C6_LengthIsRowCount ==
    \A c \in procs :
        LET s == cn[c]
        IN  Executed(s) /\ ~flat(s.q) /\ s.ret = Nil =>
                Len(s.out) = Len(DataOf(s.resp))

\* A call has succeeded into a destination that was longer before it.
C6_Witness ==
    \E c \in procs :
        /\ Executed(cn[c])
        /\ ~flat(cn[c].q)
        /\ cn[c].ret = Nil
        /\ cn[c].had > Len(cn[c].out)

\* C7: with cardinality many, after a call that succeeded element i of the
\* destination is the i-th Data message of the response, decoded for the
\* output shape of the call.
C7_RowsInServerOrder ==
    \A c \in procs :
        LET s == cn[c]
            data == DataOf(s.resp)
        IN  Executed(s) /\ ~flat(s.q) /\ s.ret = Nil =>
                /\ DOMAIN s.out = DOMAIN data
                /\ \A i \in DOMAIN data :
                      /\ s.out[i].val = data[i].a
                      /\ s.out[i].shape = s.tp
                      /\ s.out[i].desc = Descriptors(s.q.cmd).out

\* A call has returned two different rows.
C7_Witness ==
    \E c \in procs :
        /\ Executed(cn[c])
        /\ ~flat(cn[c].q)
        /\ cn[c].ret = Nil
        /\ Len(cn[c].out) = 2
        /\ cn[c].out[1].val # cn[c].out[2].val

\* C8: a message of a type the loop does not name ends the call at once
\* with a fatal error of the connection.
C8_UnexpectedMessageIsFatal ==
    \A c \in procs :
        cn[c].unrec =>
            /\ cn[c].pc = "done"
            /\ cn[c].ret.kind \in {"panic", "unexpectedMessage"}
            /\ cn[c].broken

LoopPcs == {"prepare:loop", "describe:loop", "execute:loop", "optimistic:loop"}

\* C9: when the response to Execute or OptimisticExecute starts with an
\* ErrorResponse, the call returns that server error, and the connection
\* is ready: nothing is left on the wire and the connection is usable.
\* The call after it on that connection reads its own response and
\* nothing else.
C9_ServerErrorLeavesConnectionReady ==
    \A c \in procs :
        LET s == cn[c]
        IN  /\ Executed(s) /\ s.resp # <<>> /\ s.resp[1].type = "ErrorResponse"
               => /\ s.ret = ServerError(s.resp[1].a)
                  /\ s.wire = <<>>
                  /\ ~s.broken
            /\ s.kind = "client" /\ s.afterErr =>
                  /\ ~s.readStale
                  /\ s.pc \in LoopPcs => s.buf = s.resp

\* The call after such an error has returned rows on the same connection.
C9_Witness ==
    \E c \in procs :
        /\ cn[c].kind = "client"
        /\ cn[c].afterErr
        /\ cn[c].pc = "done"
        /\ cn[c].ret = Nil
        /\ cn[c].out # <<>>

RequestOrders ==
    { <<"Prepare">>, <<"Prepare", "DescribeStatement">>,
      <<"Prepare", "DescribeStatement", "Execute">>, <<"Prepare", "Execute">>,
      <<"OptimisticExecute">>, <<"ExecuteScript">> }

\* C10: when the transport fails in granularFlow or execScriptFlow, the
\* call has returned, with the error the transport signalled; the request
\* of the failed step is the last one written and no request was written
\* twice; and a call that failed in Prepare or DescribeStatement has put
\* nothing into any cache.
C10_TransportErrorEndsCall ==
    \A c \in procs :
        LET s == cn[c]
        IN  s.kind \in {"client", "script"} /\ s.ioErr # "" =>
                /\ s.pc = "done"
                /\ s.ret = TransportError(s.ioErr)
                /\ s.sent \in RequestOrders
                /\ Last(s.sent) \in {"Prepare", "DescribeStatement"} =>
                       s.puts = {}

\* The transport has failed in the DescribeStatement step.
C10_Witness ==
    \E c \in procs :
        /\ cn[c].ret.kind = "transport"
        /\ Last(cn[c].sent) = "DescribeStatement"

\* C11: a call of granularFlow whose output shape does not fit the
\* descriptors of its query never writes Execute or OptimisticExecute and
\* puts no codecs; unless the server or the transport ended it earlier, it
\* returns the error of buildCodecs.  When it returns that error, it has
\* written nothing, or Prepare, or Prepare and DescribeStatement, the wire
\* is empty and the connection is usable; the call after it on that
\* connection reads its own responses and nothing else.
C11_BuildErrorLeavesConnectionIdle ==
    \A c \in procs :
        LET s == cn[c]
        IN  /\ s.kind = "client" /\ s.q # NoQuery
               /\ ~Compatible(Descriptors(s.q.cmd), s.tp)
               => /\ \A i \in 1..Len(s.sent) : s.sent[i] \notin ExecRequests
                  /\ s.pc \notin ExecPcs
                  /\ "codecs" \notin s.puts
                  /\ s.pc = "done" /\ s.ret.kind \notin {"server", "transport", "panic"}
                        => s.ret = BuildError
            /\ s.ret = BuildError =>
                  /\ s.pc = "done"
                  /\ s.sent \in {<<>>, <<"Prepare">>,
                                 <<"Prepare", "DescribeStatement">>}
                  /\ s.wire = <<>>
                  /\ ~s.broken
            /\ s.kind = "client" /\ s.afterBuild =>
                  /\ ~s.readStale
                  /\ s.pc \in LoopPcs => s.buf = s.resp

\* The call after a call that returned the error of buildCodecs has
\* returned rows on the same connection.
C11_Witness ==
    \E c \in procs :
        /\ cn[c].kind = "client"
        /\ cn[c].afterBuild
        /\ cn[c].pc = "done"
        /\ cn[c].ret = Nil
        /\ cn[c].out # <<>>

DescribePcs == {"describe", "describe:read", "describe:loop"}

AfterDescriptors == {"putDescriptors", "pesimistic:buildCodecs",
                     "pesimistic:putCodecs"}

\* C17: on the pessimistic path, when the descriptor-ID cache holds the ID
\* pair of PrepareComplete, the call writes no DescribeStatement, puts
\* nothing into that cache and goes on with the cached descriptors; when
\* it does not, the call writes DescribeStatement and stores the
\* descriptors of the response under that ID pair.  DescribeStatement is
\* written only after a miss.
C17_DescribeOnlyOnMiss ==
    \A c \in procs :
        LET s == cn[c]
        IN  s.kind = "client" =>
              /\ s.idHit = "hit" =>
                    /\ \A i \in 1..Len(s.sent) : s.sent[i] # "DescribeStatement"
                    /\ s.pc \notin DescribePcs \cup {"putDescriptorsByID"}
                    /\ "descriptorsByID" \notin s.puts
                    /\ s.pc \in AfterDescriptors =>
                          /\ s.ids \in DOMAIN descIDCache
                          /\ s.descs = descIDCache[s.ids]
              /\ s.idHit = "miss" =>
                    /\ s.pc \notin DescribePcs
                          => \E i \in 1..Len(s.sent) : s.sent[i] = "DescribeStatement"
                    /\ s.pc \in AfterDescriptors =>
                          /\ "descriptorsByID" \in s.puts
                          /\ s.ids \in DOMAIN descIDCache
                          /\ descIDCache[s.ids] =
                                [in |-> s.resp[1].a, out |-> s.resp[1].b]
                          /\ s.descs = descIDCache[s.ids]
              /\ (\E i \in 1..Len(s.sent) : s.sent[i] = "DescribeStatement")
                    => s.idHit = "miss"

\* A call for a query that has no descriptors in the descriptor cache found
\* the ID pair of its PrepareComplete, which the call for another query
\* text had stored, and has returned rows after Prepare and Execute alone.
C17_Witness ==
    \E c \in procs :
        /\ cn[c].idHit = "hit"
        /\ cn[c].pc = "done"
        /\ cn[c].ret = Nil
        /\ cn[c].sent = <<"Prepare", "Execute">>
        /\ cn[c].out # <<>>

NoStale(w) == \A i \in 1..Len(w) : ~w[i].stale

\* The pessimistic path of granularFlow: the requests are written in the
\* order Prepare, DescribeStatement (after a miss in the descriptor-ID
\* cache only), Execute; a request is written when nothing of an earlier
\* response is on the wire; and Execute is written after the codecs were
\* built from the descriptors of the query and put into the codec cache.
PesimisticOrder ==
    \A c \in procs :
        LET s == cn[c]
        IN  s.kind = "client" =>
              /\ s.sent \in {<<>>, <<"Prepare">>, <<"Prepare", "DescribeStatement">>,
                             <<"Prepare", "DescribeStatement", "Execute">>,
                             <<"Prepare", "Execute">>, <<"OptimisticExecute">>}
              /\ s.sent = <<"Prepare", "Execute">> => s.idHit = "hit"
              /\ Len(s.sent) = 3 => s.idHit = "miss"
              /\ NoStale(s.wire) /\ ~s.readStale
              /\ s.sent # <<>> /\ Last(s.sent) = "Execute" =>
                    /\ "codecs" \in s.puts
                    /\ "descriptors" \in s.puts
                    /\ CodecKey(s.q, s.tp) \in DOMAIN codecCache
                    /\ codecCache[CodecKey(s.q, s.tp)] =
                          buildCodecs(s.q, s.tp, Descriptors(s.q.cmd))

\* The same order in Conn.QueryWithArgs, which always describes.
QueryWithArgsOrder ==
    \A c \in procs :
        LET s == cn[c]
        IN  s.kind = "conn" =>
              /\ s.sent \in {<<>>, <<"Prepare">>, <<"Prepare", "DescribeStatement">>,
                             <<"Prepare", "DescribeStatement", "Execute">>}
              /\ NoStale(s.wire) /\ ~s.readStale

\* C16: on the pessimistic path, in granularFlow and in QueryWithArgs, the
\* requests are written in the order Prepare, DescribeStatement, Execute,
\* each after the response to the one before it has been read through its
\* ReadyForCommand, and Execute after the codecs were built and cached.
C16_PessimisticOrder == PesimisticOrder /\ QueryWithArgsOrder

ReadLoopPcs == LoopPcs \cup {"qwa:prepare:loop", "qwa:describe:loop",
                             "qwa:execute:loop"}

\* C18: a step that has read a response has read it through its
\* ReadyForCommand: what a response loop works on ends with the
\* ReadyForCommand of the response to the request of its step,
\* execScriptFlow returns nil or a server error only with the wire empty,
\* and no request is written while a message of an earlier response is
\* unread.
C18_ReadThroughReadyForCommand ==
    \A c \in procs :
        LET s == cn[c]
        IN  /\ s.pc \in ReadLoopPcs =>
                  /\ s.buf # <<>>
                  /\ Last(s.buf) = ReadyForCommand
                  /\ s.wire = <<>>
            /\ s.kind = "script" /\ s.pc = "done" /\ s.sent # <<>>
                  /\ s.ret.kind \in {"nil", "server"} => s.wire = <<>>
            /\ NoStale(s.wire)
            /\ ~s.readStale

\* The codecs buildCodecs makes for a key of the codec cache.
Built(k) == buildCodecs(Query(k.cmd, FALSE), k.tp, Descriptors(k.cmd))

\* Every entry of the codec cache is completely built, every call that
\* executes holds the completely built codecs of its key, and the key of
\* a call that has put codecs has an entry.
CodecsComplete ==
    /\ \A k \in DOMAIN codecCache : codecCache[k] = Built(k)
    /\ \A c \in procs :
          LET s == cn[c]
              key == CodecKey(s.q, s.tp)
          IN  /\ s.pc \in ExecPcs => s.cdcs = Built(key) /\ key \in DOMAIN codecCache
              /\ "codecs" \in s.puts => key \in DOMAIN codecCache

\* A step leaves every entry of the codec cache as it is.
EntriesKept ==
    \A k \in DOMAIN codecCache :
        k \in DOMAIN codecCache' /\ codecCache'[k] = codecCache[k]

\* C14: when two connections run granularFlow at the same time, for the
\* same key or for different keys, under every interleaving of their
\* lookups, builds and puts: a call executes with completely built codecs,
\* no entry of the codec cache is ever partly built, the key has one entry
\* once a call has put it, and no step changes an entry that is there.
C14_ConcurrentFirstUse == []CodecsComplete /\ [][EntriesKept]_vars

\* Both connections missed the same key, both built and put its codecs,
\* and both calls have returned rows.
C14_Witness ==
    /\ procs = Conns
    /\ \A c \in Conns :
          /\ cn[c].q = cn[1].q /\ cn[c].tp = cn[1].tp
          /\ ~cn[c].hit
          /\ cn[c].sent = <<"Prepare", "DescribeStatement", "Execute">>
             \/ cn[c].sent = <<"Prepare", "Execute">>
          /\ "codecs" \in cn[c].puts
          /\ cn[c].pc = "done"
          /\ cn[c].ret = Nil


\* The decoder that was built, and whether the call of Decode on it is over.
TopDecoder == dec.built.decoder
Decoded == dec.pc = "decoded"

\* What the call has read of the reader it was given.
Consumed == Len(dec.wire) - Len(dec.res.buf)

\* The destination as the wrapper of an optionalObjectDecoder leaves it
\* before it calls objectDecoder.Decode: SetMissing(false), nothing else.
MemAtEntry ==
    IF TopDecoder.type = "optionalObjectDecoder"
    THEN [dec.mem EXCEPT ![0] = Slot(<<>>, FALSE)]
    ELSE dec.mem

\* C19: when the element count of the value differs from the number of
\* fields of the decoder, objectDecoder.Decode returns the error "wrong
\* number of object fields"; it has called no field decoder, the
\* destination is as it was when objectDecoder.Decode was entered, and of
\* the reader only the 4 bytes of the count are read.  The same holds for
\* the objectDecoder of a field: it is called on the bytes of its element
\* alone and leaves the destination as it was.
C19_CountMismatch ==
    Decoded =>
        /\ dec.count # Len(TopDecoder.fields) =>
              /\ dec.res.err = WrongNumber
              /\ dec.res.log = <<>>
              /\ dec.res.mem = MemAtEntry
              /\ Consumed = 4
              /\ Consumed <= Len(dec.wire)
        /\ /\ dec.count = Len(TopDecoder.fields)
           /\ TopDecoder.fields # <<>>
           /\ TopDecoder.fields[1].decoder.type = "objectDecoder"
           /\ dec.values[1] = Five
           => /\ dec.res.err = WrongNumber
              /\ Len(dec.res.log) = 1
              /\ dec.res.log[1].slice = Five
              /\ dec.res.mem = MemAtEntry

\* A value that declares one element was given to a decoder of two
\* fields, with a destination used before and bytes after the count.
C19_Witness ==
    /\ Decoded
    /\ TopDecoder.type = "objectDecoder"
    /\ Len(TopDecoder.fields) = 2
    /\ dec.count = 1
    /\ dec.values[1] = Five
    /\ dec.mem # Mem(dec.typ, FALSE)
    /\ dec.res.err = WrongNumber
    /\ Len(dec.res.buf) > 0


\* The fields of the decoder that was built, and the calls of Decode and
\* DecodeMissing that objectDecoder.Decode itself has made on their
\* decoders (the log also holds the calls a field's own decoder has made).
TopFields == TopDecoder.fields
IsTopCall(e) ==
    \E i \in 1..Len(TopFields) :
        e.at = TopFields[i].offset /\ e.type = TopFields[i].decoder.type
TopLog == SelectSeq(dec.res.log, IsTopCall)

IsMissing(i) == dec.values[i] = <<"missing">>

\* The error the Decode of field i returns on the bytes of its element.
FieldErr(i) ==
    DecodeValue(TopFields[i].decoder, Reading(dec.values[i], dec.mem),
                TopFields[i].offset).err

\* The bytes of the elements 1..k on the wire: per element the reserved
\* marker, the length and the value; a missing element has no value bytes.
RECURSIVE ElementBytes(_)
ElementBytes(k) ==
    IF k = 0 THEN 0
    ELSE ElementBytes(k - 1) + 8 + (IF IsMissing(k) THEN 0 ELSE Len(dec.values[k]))

FieldSlot(j) == dec.res.mem[TopFields[j].offset]

\* The decoders of strings: they take every slice, the empty one too.
StringDecoders == {"StrCodec", "optionalStrDecoder", "unmarshalerDecoder"}

\* C12: a field whose element has the length zero is decoded by Decode of
\* the field's decoder on an empty slice, and a string field is then
\* present and empty; DecodeMissing is called exactly for the elements of
\* length 0xffffffff.  After the call the absent flag of a field with an
\* OptionalDecoder is set exactly when its element was missing, and an
\* optionalObjectDecoder that was given a value has cleared the flag of
\* its destination, whatever the decoding of the value came to.
C12_EmptyIsNotMissing ==
    Decoded =>
        /\ TopDecoder.type = "optionalObjectDecoder" =>
              ~dec.res.mem[0].missing
        /\ dec.count = Len(TopFields) =>
              \A j \in 1..Len(TopLog) :
                  /\ TopLog[j].op = "DecodeMissing" <=> IsMissing(j)
                  /\ dec.values[j] = <<>> =>
                        /\ TopLog[j].op = "Decode"
                        /\ Len(TopLog[j].slice) = 0
                        /\ TopFields[j].decoder.type \in StringDecoders =>
                              FieldSlot(j) = Slot(<<>>, FALSE)
                  /\ IsOptionalDecoder(TopFields[j].decoder) =>
                        FieldSlot(j).missing = IsMissing(j)

\* A new destination, where the optional string is absent and the optional
\* object is not: the string is sent empty and is present after the call,
\* the object is sent missing and is absent after the call.
C12_Witness ==
    /\ Decoded
    /\ dec.count = 2
    /\ Len(TopFields) = 2
    /\ dec.mem = Mem(dec.typ, FALSE)
    /\ TopFields[1].decoder.type = "optionalStrDecoder"
    /\ dec.values[1] = <<>>
    /\ dec.mem[TopFields[1].offset].missing
    /\ FieldSlot(1) = Slot(<<>>, FALSE)
    /\ TopFields[2].decoder.type = "optionalObjectDecoder"
    /\ IsMissing(2)
    /\ ~dec.mem[TopFields[2].offset].missing
    /\ FieldSlot(2).missing
    /\ dec.res.err = ""


\* The builder has returned.
BuilderReturned == dec.pc # "start"

\* The decoder BuildDecoder makes for field i of the descriptor and the
\* output field of its name, when there is such a field.
HasStructField(i) == StructField(dec.typ, dec.desc.fields[i].name) # 0
ChildOf(i) ==
    BuildDecoder(dec.ver, dec.desc.fields[i].desc,
                 dec.typ.fields[StructField(dec.typ, dec.desc.fields[i].name)].type)

\* Field i is not required and the decoder for its output field is no
\* OptionalDecoder.
LacksOptional(i) ==
    /\ ~dec.desc.fields[i].required
    /\ HasStructField(i)
    /\ ChildOf(i).err = ""
    /\ ~IsOptionalDecoder(ChildOf(i).decoder)

\* The builder cannot get past field i.
FieldFails(i) ==
    \/ ~HasStructField(i)
    \/ ChildOf(i).err # ""
    \/ LacksOptional(i)

\* The names an error for a field that is not required may hold.
OptionalTypeNames ==
    {optionalTypeNameLookup[t] : t \in DOMAIN optionalTypeNameLookup}
        \cup {"OptionalUnmarshaler interface"}

\* Every field of the decoder whose descriptor is not required has an
\* OptionalDecoder, in the decoder and in the object decoders of its fields.
RECURSIVE MissingCapable(_, _)
MissingCapable(desc, decoder) ==
    \A i \in 1..Len(desc.fields) :
        /\ ~desc.fields[i].required =>
               IsOptionalDecoder(decoder.fields[i].decoder)
        /\ MissingCapable(desc.fields[i].desc, decoder.fields[i].decoder)

\* C13: buildObjectDecoder and buildObjectDecoderV2 return an error when
\* some field of the descriptor is not required and the decoder for its
\* output field is no OptionalDecoder; a decoder they return has an
\* OptionalDecoder on every field that is not required.  The error of the
\* first such field names the type optionalTypeNameLookup holds for the
\* field's decoder, or "OptionalUnmarshaler interface" when the table does
\* not hold its type.
C13_OptionalNeedsOptionalDecoder ==
    BuilderReturned /\ dec.typ.kind = "Struct" =>
        LET n == Len(dec.desc.fields)
            built == dec.built
        IN  /\ (\E i \in 1..n : LacksOptional(i)) => built.err # ""
            /\ built.err = "" =>
                  /\ Len(built.decoder.fields) = n
                  /\ MissingCapable(dec.desc, built.decoder)
            /\ built.err = "not required" =>
                  built.typeName \in OptionalTypeNames
            /\ \A i \in 1..n :
                  /\ LacksOptional(i)
                  /\ \A j \in 1..(i - 1) : ~FieldFails(j)
                  => /\ built.err = "not required"
                     /\ built.decoder = NoDecoder
                     /\ built.typeName =
                           (IF ChildOf(i).decoder.type \in DOMAIN optionalTypeNameLookup
                            THEN optionalTypeNameLookup[ChildOf(i).decoder.type]
                            ELSE "OptionalUnmarshaler interface")

\* buildObjectDecoderV2 has built the decoder of a first field, and fails
\* at a second field that is not required and whose decoder, that of an
\* Unmarshaler, is no OptionalDecoder and not in the table.
C13_Witness ==
    /\ dec.pc = "failed"
    /\ dec.ver = "V2"
    /\ Len(dec.desc.fields) = 2
    /\ ~FieldFails(1)
    /\ LacksOptional(2)
    /\ ChildOf(2).decoder.type = "unmarshalerDecoder"
    /\ dec.built.err = "not required"
    /\ dec.built.typeName = "OptionalUnmarshaler interface"


\* The bytes TestDecodeNamedTuple decodes and TestEncodeNamedTuple expects
\* after the message header.
NamedTupleBytes ==
    << 0, 0, 0, 28,
       0, 0, 0, 2,
       0, 0, 0, 0,
       0, 0, 0, 4,
       0, 0, 0, 5,
       0, 0, 0, 0,
       0, 0, 0, 4,
       0, 0, 0, 6 >>

\* The bytes of a named tuple are on the wire, and they are decoded.
Encoded == dec.pc \in {"encoded", "roundtrip"}
RoundTrip == dec.pc = "roundtrip"

\* The 4 bytes of the wire from position at on.
Word(at) == SubSeq(dec.wire, at, at + 3)

FieldLeft(j) ==
    Len(DecodeValue(TopFields[j].decoder, Reading(dec.values[j], dec.mem),
                    TopFields[j].offset).buf)

\* The position in the value at which the bytes of element j begin.
ValueStart(j) == Len(dec.wire) - TopLog[j].left

\* The bytes left in the reader of the value when objectDecoder.Decode is
\* through with field j: 8 bytes before the value of the next element, or
\* what is left at the end of the call.
LeftAfter(j) ==
    IF j < Len(TopLog) THEN TopLog[j + 1].left + 8
    ELSE IF dec.res.err = NotOptional THEN Len(dec.res.buf) + 8
    ELSE Len(dec.res.buf)

\* C21: the Decode of a field is given the bytes of its element and no
\* others, so it reads none beyond the declared length; and when
\* objectDecoder.Decode is through with a present field, its reader is
\* past the reserved marker, the length and all of the declared bytes,
\* whether the field's decoder has read all, some or none of them.
C21_ByteBounding ==
    Decoded /\ dec.count = Len(TopFields) =>
        \A j \in 1..Len(TopLog) :
            /\ TopLog[1].left = Len(dec.wire) - 12
            /\ ~IsMissing(j) =>
                  /\ Len(TopLog[j].slice) = Len(dec.values[j])
                  /\ TopLog[j].slice =
                        SubSeq(dec.wire, ValueStart(j) + 1,
                               ValueStart(j) + Len(dec.values[j]))
                  /\ FieldLeft(j) \in 0..Len(dec.values[j])
                  /\ dec.res.err # ShortBuffer =>
                        LeftAfter(j) = TopLog[j].left - Len(dec.values[j])
            /\ IsMissing(j) => LeftAfter(j) = TopLog[j].left

\* The int32 decoder of the first field has read 4 of the 14 bytes of its
\* element; the second field is decoded from the bytes of its own element,
\* and the call has read the whole value.
C21_Witness ==
    /\ Decoded
    /\ dec.count = 2
    /\ Len(TopFields) = 2
    /\ TopFields[1].decoder.type = "Int32Codec"
    /\ Len(dec.values[1]) = 14
    /\ FieldLeft(1) = 10
    /\ TopFields[2].decoder.type = "StrCodec"
    /\ dec.values[2] = Five
    /\ FieldSlot(2) = Slot(Five, FALSE)
    /\ dec.res.err = ""
    /\ dec.res.buf = <<>>


\* The struct field of the output type that has the name of field i of the
\* descriptor.
NamedLike(i) == dec.typ.fields[StructField(dec.typ, dec.desc.fields[i].name)]

\* C22: the builder of object decoders fails when the output type is no
\* struct, and when a field of the descriptor has no field of its name in
\* the struct.  The decoder it returns has one field per field of the
\* descriptor, in the order of the descriptor, with the name of the
\* descriptor's field and the offset of the struct field of that name; so
\* element i of a value is stored in the struct field named like field i
\* of the descriptor, in whatever order the struct declares its fields.
C22_FieldsByName ==
    BuilderReturned =>
        LET n == Len(dec.desc.fields)
            built == dec.built
        IN  /\ dec.typ.kind # "Struct" =>
                  built.err = "expected Struct" /\ built.decoder = NoDecoder
            /\ /\ dec.typ.kind = "Struct"
               /\ \E i \in 1..n : ~HasStructField(i)
               => built.err # "" /\ built.decoder = NoDecoder
            /\ \A i \in 1..n :
                  /\ dec.typ.kind = "Struct"
                  /\ ~HasStructField(i)
                  /\ \A j \in 1..(i - 1) : ~FieldFails(j)
                  => built.err = "no field named"
            /\ built.err = "" =>
                  /\ dec.typ.kind = "Struct"
                  /\ Len(TopFields) = n
                  /\ \A i \in 1..n :
                        /\ HasStructField(i)
                        /\ TopFields[i].name = dec.desc.fields[i].name
                        /\ NamedLike(i).name = TopFields[i].name
                        /\ TopFields[i].offset = NamedLike(i).offset
            /\ Decoded /\ dec.res.err = "" =>
                  \A i \in 1..n :
                      /\ ~IsMissing(i)
                      /\ TopFields[i].decoder.type \in StringDecoders
                      => dec.res.mem[NamedLike(i).offset] =
                             Slot(dec.values[i], FALSE)

\* The struct declares the two fields in the opposite order to the
\* descriptor: the first element is stored in the struct field declared
\* second, the second element in the one declared first.
C22_Witness ==
    /\ Decoded
    /\ dec.res.err = ""
    /\ Len(dec.desc.fields) = 2
    /\ dec.typ.fields[1].name = dec.desc.fields[2].name
    /\ dec.typ.fields[2].name = dec.desc.fields[1].name
    /\ TopFields[1].offset = Offset(FALSE, 2)
    /\ TopFields[2].offset = Offset(FALSE, 1)
    /\ TopFields[1].decoder.type = "StrCodec"
    /\ TopFields[2].decoder.type = "StrCodec"
    /\ dec.values = << <<>>, Five >>
    /\ dec.res.mem[Offset(FALSE, 2)] = Slot(<<>>, FALSE)
    /\ dec.res.mem[Offset(FALSE, 1)] = Slot(Five, FALSE)


\* C23: objectDecoder.Decode of a decoder the builder has returned calls
\* DecodeMissing only on field decoders that are OptionalDecoders, and on
\* the length 0xffffffff for a field whose decoder is none it returns (an
\* error or nil): no call of Decode ends in the panic of the failed type
\* assertion.
C23_NoFailedAssertion ==
    Decoded =>
        /\ dec.res.err # NotOptional
        /\ \A j \in 1..Len(dec.res.log) :
              dec.res.log[j].op = "DecodeMissing" =>
                  dec.res.log[j].type \in OptionalDecoders


\* The call has written no request, or one of the given type.
NoRequest(s) == s.sent = <<>>
HasSent(s, type) == \E i \in 1..Len(s.sent) : s.sent[i] = type

\* C24: a call of pesimistic that returns the error of buildCodecs has
\* left the descriptors in the descriptor cache under the query and in the
\* descriptor-ID cache under the ID pair, and no entry in the codec cache
\* for the query and the shape.  The same call made again sends no request
\* and returns the error of buildCodecs again; a call with the same query
\* and a shape that fits gets its codecs built from the descriptors of the
\* cache and sends OptimisticExecute, and neither Prepare nor
\* DescribeStatement.
C24_BuildErrorKeepsDescriptors ==
    \A c \in procs :
        LET s == cn[c]
            key == CodecKey(s.q, s.tp)
        IN  s.kind = "client" =>
            /\ s.pc = "done" /\ s.ret = BuildError =>
                  /\ DescKey(s.q) \in DOMAIN descCache
                  /\ descCache[DescKey(s.q)] = Descriptors(s.q.cmd)
                  /\ TypeIDs(s.q.cmd) \in DOMAIN descIDCache
                  /\ descIDCache[TypeIDs(s.q.cmd)] = Descriptors(s.q.cmd)
                  /\ key \notin DOMAIN codecCache
                  /\ "codecs" \notin s.puts
                  /\ HasSent(s, "Prepare") =>
                        /\ "descriptors" \in s.puts
                        /\ s.idHit = "miss" => "descriptorsByID" \in s.puts
                        /\ ~HasSent(s, "Execute")
            /\ s.repeats = "same" =>
                  /\ NoRequest(s)
                  /\ s.puts = {}
                  /\ s.pc = "done" => s.ret = BuildError
                  /\ key \notin DOMAIN codecCache
            /\ s.repeats = "shape" /\ Compatible(Descriptors(s.q.cmd), s.tp) =>
                  /\ s.sent \in {<<>>, <<"OptimisticExecute">>}
                  /\ s.puts \subseteq {"codecs"}
                  /\ s.ret # BuildError
                  /\ s.sent # <<>> =>
                        /\ key \in DOMAIN codecCache
                        /\ codecCache[key] =
                              buildCodecs(s.q, s.tp, descCache[DescKey(s.q)])
                        /\ ~s.hit => "codecs" \in s.puts

\* After a call that returned the error of buildCodecs, a call with the
\* same query and a shape that fits has built its codecs, stored them and
\* run the query with OptimisticExecute alone.
C24_Witness ==
    \E c \in procs :
        /\ cn[c].kind = "client"
        /\ cn[c].repeats = "shape"
        /\ ~cn[c].hit
        /\ cn[c].pc = "done"
        /\ cn[c].ret = Nil
        /\ cn[c].sent = <<"OptimisticExecute">>
        /\ cn[c].puts = {"codecs"}
        /\ CodecKey(cn[c].q, "T3") \notin DOMAIN codecCache


\* The number of Data messages in front of the first ErrorResponse of the
\* response r, or -1 when r holds no ErrorResponse.
RowsBeforeError(r) ==
    IF \E i \in 1..Len(r) : r[i].type = "ErrorResponse"
    THEN (CHOOSE i \in 1..Len(r) :
             /\ r[i].type = "ErrorResponse"
             /\ \A j \in 1..(i - 1) : r[j].type # "ErrorResponse") - 1
    ELSE -1

\* The call has read the response to Execute or OptimisticExecute, and the
\* response held k rows and then an ErrorResponse.
ErrorAfterRows(s, k) ==
    /\ s.kind = "client"
    /\ s.pc = "done"
    /\ s.ioErr = ""
    /\ s.sent # <<>>
    /\ Last(s.sent) \in {"Execute", "OptimisticExecute"}
    /\ RowsBeforeError(s.resp) = k
    /\ \A j \in 1..k : s.resp[j].type = "Data"

\* C25: when the query has the cardinality many and the response to
\* Execute or OptimisticExecute holds an ErrorResponse after one or more
\* Data messages, the call returns the error of the server and the
\* caller's destination has the length 0: it holds none of the rows that
\* were decoded and none of what it held before the call.
C25_ErrorAfterRowsEmptiesDestination ==
    \A c \in procs, k \in 1..(MaxRows + 1) :
        ErrorAfterRows(cn[c], k) /\ ~flat(cn[c].q) =>
            /\ cn[c].ret = ServerError(cn[c].resp[k + 1].a)
            /\ Len(cn[c].out) = 0

\* A destination that held rows was handed in again; two rows and then an
\* ErrorResponse came in answer to OptimisticExecute.
C25_Witness ==
    \E c \in procs :
        /\ ErrorAfterRows(cn[c], 2)
        /\ ~flat(cn[c].q)
        /\ Last(cn[c].sent) = "OptimisticExecute"
        /\ cn[c].had > 0
        /\ cn[c].ret.kind = "server"
        /\ cn[c].out = <<>>

====
